---- MODULE Spec2Model ----
(***************************************************************************)
(* Verification model of the renderer core of the tile engine:             *)
(*   - the call-site keyed shared-part cache (graphics/drawable.rs),        *)
(*   - the draw queue and command recording (graphics.rs),                  *)
(*   - the in-flight fence rotation of draw_frame (graphics.rs),            *)
(*   - the multi-buffered UniformBuffer (graphics/bindable/uniform.rs),     *)
(*   - the redraw step of the event loop (main.rs),                         *)
(*   - the texture and sampler-layout caches (graphics/bindable/texture.rs),*)
(*   - the chunked hitbox store and the moving hit test                     *)
(*     (utils/colliders.rs, utils/math),                                    *)
(*   - the animation clocks of the tile loader (drawables/tiles.rs),        *)
(*   - the tile maps, their loader and their meshes (tiles/tilemap.rs),     *)
(*   - the re-tiling of an image into array layers (bindable/texture.rs),   *)
(*   - the mouse state and the routing of button events through the Ui      *)
(*     (input.rs, input/mouse.rs, ui.rs, graphics/ui.rs),                   *)
(*   - the mesh of a static tile group (drawables/tiles/tile_group.rs),     *)
(*   - the choice of an animated tile's frame (tiles/tilemap.rs).           *)
(* Heap objects (Arc) are modelled with explicit strong counts; a Weak is  *)
(* the index of its target and upgrades only while the strong count is     *)
(* positive.                                                               *)
(***************************************************************************)
EXTENDS Integers, Sequences, FiniteSets, TLC

\* ------------------------------------------------------- constants, bounds
\* graphics.rs: const IN_FLIGHT_COUNT
IN_FLIGHT_COUNT == 2

\* bound on the number of GenericDrawable::new calls
MaxDrawables == 3

\* bound on the length of the draw queue
MaxQueue == 2

\* bound on the number of draw_frame calls
MaxFrames == 4

\* call sites of GenericDrawable::new
Sites == {1, 2}

Slots == 0..(IN_FLIGHT_COUNT - 1)

\* values a uniform's staging buffer can take
Values == {0, 1}

\* window sizes; 0 stands for a zero-area (minimized) window
Extents == {0, 1, 2}

\* results of acquire_next_image and of then_signal_fence_and_flush
AcquireResults == {"ok", "suboptimal", "out_of_date"}

FlushResults == {"ok", "out_of_date"}

VARIABLES
    shared_data_map,      \* Graphics.shared_data_map: call site -> Weak (0 = no entry)
    parts,                \* heap of DrawableSharedPart, indexed by allocation order
    drawables,            \* heap of GenericDrawable, indexed by allocation order
    entries,              \* the DrawableEntry values the application still owns
    new_log,              \* history: the calls made by the last GenericDrawable::new
    draw_queue,           \* Graphics.draw_queue
    main_command_buffer,  \* Graphics.main_command_buffer: <<>> (None) or <<commands>>
    recorded,             \* history: the calls recreate_command_buffer last recorded
    inflight_index,       \* Graphics.inflight_index
    futures,              \* Graphics.futures: slot -> [cleaned, subs] of its submission
    executing,            \* submissions whose fence is not signalled, oldest first
    frame_counter,        \* history: number of frames submitted by draw_frame
    draw_calls,           \* history: number of draw_frame calls made
    bind_busy,            \* history: a bind for slot k ran while a frame bound to k executed
    upload_refused,       \* history: a bind found its slot invalid and could not write it
    ub,                   \* the UniformBuffer: staging value, sub-buffers, validity flags
    swapchain_extent,     \* Graphics.swapchain.image_extent()
    panicked,             \* the process has panicked (unwrap on Err)
    window_extent,        \* the window's inner size (environment)
    window_size,          \* main: the size seen by the previous redraw
    minimized,            \* main: minimized
    TEXTURE_CACHE,        \* texture.rs TEXTURE_CACHE: texture id -> Weak (0 = no entry)
    textures,             \* heap of Texture, indexed by allocation order
    LAYOUT_CACHE,         \* texture.rs LAYOUT_CACHE: LayoutCreateArgs -> Weak (0 = no entry)
    layouts,              \* heap of DescriptorSetLayout, indexed by allocation order
    threads,              \* the threads that load textures
    pc,                   \* thread -> its position in Texture::new_inner
    frame,                \* thread -> the locals of its new_inner call
    returned,             \* history: thread -> the texture its last call returned
    layout_readers,       \* the threads holding a read guard of LAYOUT_CACHE
    uploads,              \* history: number of textures constructed and uploaded
    loads,                \* history: number of new_inner calls made
    chunks,               \* HitboxManager.chunks: chunk coordinates -> HitboxChunk
    query,                \* history: the last moving_hit_test call, <<>> before the first
    hit,                  \* history: min_t, the fractions computed and the result of that call
    line_query,           \* history: the last line_collision call made on its own, <<>> before it
    line_t,               \* history: the fraction that call returned
    now,                  \* the wall clock, in units of Millis milliseconds
    animations,           \* drawables TileMapLoader.animations: id -> TileAnimation
    clock_history,        \* history: id -> creation time, ticks made, tiles served
    updated,              \* history: update() has run since the wall clock last moved
    map_files,            \* the tiled map files on disk: path -> parsed tiled::Map
    tilesets,             \* heap of TileSet, indexed by allocation order
    loaded_tilesets,      \* TileMapLoader.loaded_tilesets: source -> Weak (0 = no entry)
    tilemaps,             \* heap of TileMap, indexed by allocation order
    loaded_tilemaps,      \* TileMapLoader.loaded_tilemaps: path -> Weak (0 = no entry)
    tile_load,            \* history: the load call, if it was the last call made
    tile_update,          \* history: the update call, if it was the last call made
    mesh_query,           \* history: the last TileMapDrawable::new call made on its own
    mesh_drawable,        \* history: the TileMapDrawable that call returned
    array_query,          \* history: the image of the last Texture::new_array upload, <<>> before it
    array_data,           \* history: what the bytes closure of that call returned
    cursor_position,      \* Mouse.cursor_position
    mouse_movement,       \* Mouse.mouse_movement
    scroll_wheel_movement, \* Mouse.scroll_wheel_movement
    button_map,           \* Mouse.button_map: button -> Option<ButtonState>
    instant,              \* what Instant::now() reads
    scene,                \* Ui.scene: the elements, each with its layout
    clicked_element,      \* Ui.clicked_element
    captured_buttons,     \* Ui.captured_buttons
    down,                 \* the buttons whose last event was a press
    routed,               \* history: button -> who took its last press
    input_last,           \* history: the last event delivered and who took it
    uniform_last,         \* history: the last call made on the UniformBuffer on its own
    group_query,          \* history: the last StaticTileGroup::new call, <<>> before it
    group_mesh,           \* history: the vertices and the indices that call built
    frame_query,          \* history: the animation and the time of the last frame choice
    frame_choice          \* history: the frame that was chosen

cache_vars == <<shared_data_map, entries, new_log>>

heap_vars == <<parts, drawables>>

queue_vars == <<draw_queue, main_command_buffer, recorded>>

frame_vars == <<inflight_index, futures, executing, frame_counter, draw_calls, bind_busy,
                upload_refused>>

loop_vars == <<window_extent, window_size, minimized>>

render_vars == <<cache_vars, heap_vars, queue_vars, frame_vars, ub, swapchain_extent,
                 panicked, loop_vars>>

texture_vars == <<TEXTURE_CACHE, textures, LAYOUT_CACHE, layouts, threads, pc, frame,
                  returned, layout_readers, uploads, loads>>

collider_vars == <<chunks, query, hit, line_query, line_t>>

animation_vars == <<now, animations, clock_history, updated>>

tilemap_vars == <<map_files, tilesets, loaded_tilesets, tilemaps, loaded_tilemaps,
                  tile_load, tile_update>>

mesh_vars == <<mesh_query, mesh_drawable>>

tile_vars == <<animation_vars, tilemap_vars, mesh_vars>>

array_vars == <<array_query, array_data>>

\* the texture-array upload, the input layer, the UI and the tile groups
mouse_vars == <<cursor_position, mouse_movement, scroll_wheel_movement, button_map, instant>>

ui_vars == <<scene, clicked_element, captured_buttons>>

input_vars == <<mouse_vars, ui_vars, down, routed, input_last>>

group_vars == <<group_query, group_mesh>>

choice_vars == <<frame_query, frame_choice>>

extra_vars == <<array_vars, input_vars, uniform_last, group_vars, choice_vars>>

\* the renderer core, the caches, the colliders and the tile maps
first_vars == <<render_vars, texture_vars, collider_vars, tile_vars>>

\* everything outside the renderer core
rest_vars == <<texture_vars, collider_vars, tile_vars, extra_vars>>

vars == <<render_vars, rest_vars>>

\* --------------------------------------------------------------- bindables
\* A bindable object: its type and the object it belongs to (a drawable for
\* vertex and index buffers, 0 for the shaders and the uniform).
Bindable(kind, owner) == [kind |-> kind, owner |-> owner]

\* The instance-bindable closure of a call: a fresh vertex buffer and a fresh
\* index buffer for drawable d.
init_bindables(d) ==
    <<Bindable("VertexBuffer", d), Bindable("IndexBuffer", d)>>

\* The shared-bindable closure of a call: the shader pair and the binding of
\* the camera uniform. Every call site passes the same closure, so that two
\* call sites build structurally identical drawables.
init_shared_bindables ==
    <<Bindable("VertexShader", 0), Bindable("FragmentShader", 0),
      Bindable("UniformBufferBinding", 0)>>


\* ------------------------------------------------------- shared-part cache
Event(op, kind, owner) == [op |-> op, kind |-> kind, owner |-> owner]

\* Weak::upgrade: the target while its strong count is positive, else None (0)
UpgradeAlways(ps, w) == w

Upgrade(ps, w) == IF w # 0 /\ ps[w].strong > 0 THEN w ELSE 0

\* Graphics::get_shared_data
get_shared_data(map, ps, site) == Upgrade(ps, map[site])

\* Graphics::cache_drawable_shared_part: insert the downgraded Arc
CacheNothing(map, site, p) == map

cache_drawable_shared_part(map, site, p) == [map EXCEPT ![site] = p]

\* the bind_to_pipeline calls of one bindable list, in list order
ConfigureEvents(bs) ==
    [i \in 1..Len(bs) |-> Event("bind_to_pipeline", bs[i].kind, bs[i].owner)]

\* the calls of the miss path of GenericDrawable::new, in program order
SharedFirstMissEvents(bindables, shared_bindables) ==
    <<Event("init_bindables", "", 0), Event("init_shared_bindables", "", 0)>>
    \o ConfigureEvents(shared_bindables) \o ConfigureEvents(bindables)
    \o <<Event("build", "", 0), Event("cache_drawable_shared_part", "", 0)>>

MissEvents(bindables, shared_bindables) ==
    <<Event("init_bindables", "", 0), Event("init_shared_bindables", "", 0)>>
    \o ConfigureEvents(bindables) \o ConfigureEvents(shared_bindables)
    \o <<Event("build", "", 0), Event("cache_drawable_shared_part", "", 0)>>

\* the calls of the hit path
HitEvents == <<Event("init_bindables", "", 0)>>

\* The part of the program state that GenericDrawable::new reads and writes.
CacheWorld ==
    [shared_data_map |-> shared_data_map, parts |-> parts, drawables |-> drawables,
     entries |-> entries, new_log |-> new_log]

StoreCache(c) ==
    /\ shared_data_map' = c.shared_data_map
    /\ parts' = c.parts
    /\ drawables' = c.drawables
    /\ entries' = c.entries
    /\ new_log' = c.new_log

\* GenericDrawable::new(gfx, init_bindables, init_shared_bindables, index_count)
\* called from call site `site`; the DrawableEntry goes to the application
new(c, site, index_count) ==
    LET d == Len(c.drawables) + 1
        shared_data == get_shared_data(c.shared_data_map, c.parts, site)
        bindables == init_bindables(d)
    IN IF shared_data # 0
       THEN \* cache hit: the upgraded Arc moves into the new drawable
            [c EXCEPT
               !.parts[shared_data].strong = @ + 1,
               !.drawables = Append(@,
                   [site |-> site, bindables |-> bindables,
                    shared_part |-> shared_data, index_count |-> index_count,
                    strong |-> 1]),
               !.entries = @ \cup {d},
               !.new_log = [site |-> site, hit |-> TRUE, events |-> HitEvents]]
       ELSE \* cache miss: build the pipeline and register the shared part
            LET p == Len(c.parts) + 1
                shared_bindables == init_shared_bindables
            IN [c EXCEPT
                  !.parts = Append(@,
                      [site |-> site, bindables |-> shared_bindables,
                       pipeline |-> p, layout |-> p, strong |-> 1]),
                  !.shared_data_map = cache_drawable_shared_part(@, site, p),
                  !.drawables = Append(@,
                      [site |-> site, bindables |-> bindables,
                       shared_part |-> p, index_count |-> index_count,
                       strong |-> 1]),
                  !.entries = @ \cup {d},
                  !.new_log = [site |-> site, hit |-> FALSE,
                               events |-> MissEvents(bindables, shared_bindables)]]

\* a dropped heap object: its memory is gone, only the Weak's view of the
\* strong count (0) remains
DroppedDrawable ==
    [site |-> 0, bindables |-> <<>>, shared_part |-> 0, index_count |-> 0, strong |-> 0]

DroppedPart ==
    [site |-> 0, bindables |-> <<>>, pipeline |-> 0, layout |-> 0, strong |-> 0]

\* Dropping one Arc<DrawableSharedPart>: the last one drops the shared part.
ReleasePart(ps, p) ==
    IF ps[p].strong = 1 THEN [ps EXCEPT ![p] = DroppedPart]
    ELSE [ps EXCEPT ![p].strong = @ - 1]

\* Dropping one Arc<GenericDrawable>: the last one drops the drawable, which
\* releases its Arc<DrawableSharedPart>.
ReleaseOne(h, d) ==
    IF h.ds[d].strong = 1
    THEN [ds |-> [h.ds EXCEPT ![d] = DroppedDrawable],
          ps |-> ReleasePart(h.ps, h.ds[d].shared_part)]
    ELSE [ds |-> [h.ds EXCEPT ![d].strong = @ - 1], ps |-> h.ps]

RECURSIVE ReleaseAll(_, _)
ReleaseAll(h, q) ==
    IF q = <<>> THEN h ELSE ReleaseAll(ReleaseOne(h, Head(q)), Tail(q))

\* --------------------------------------------------------- uniform buffer
\* Graphics::get_in_flight_count
get_in_flight_count == IN_FLIGHT_COUNT

\* UniformBuffer::new(gfx, binding, data, stages): every sub-buffer is
\* written with the initial value and every slot starts valid
UniformBufferNew(data) ==
    [staging_buffer |-> data,
     subbuffers |-> [k \in 0..(get_in_flight_count - 1) |-> data],
     descriptor_sets |-> [k \in 0..(get_in_flight_count - 1) |-> k],
     subbuffer_validity |-> [k \in 0..(get_in_flight_count - 1) |-> TRUE]]

\* UniformBuffer::access_data with a closure that stores `v`
access_data(u, v) ==
    [u EXCEPT !.subbuffer_validity = [k \in Slots |-> FALSE],
              !.staging_buffer = v]

\* UniformBufferBinding::bind for in-flight index k. `locked` is the result
\* of Subbuffer::write: the host write is refused while a submission that
\* uses the sub-buffer has not been cleaned up.
BindMarksAll(u, k, locked) ==
    IF ~u.subbuffer_validity[k] /\ ~locked
    THEN [u EXCEPT !.subbuffers[k] = u.staging_buffer,
                   !.subbuffer_validity = [j \in Slots |-> TRUE]]
    ELSE u

\* a bind that marks the slot whether or not the write went through
bind_marks_refused(u, k, locked) ==
    IF ~u.subbuffer_validity[k]
    THEN [u EXCEPT !.subbuffers[k] = IF locked THEN @ ELSE u.staging_buffer,
                   !.subbuffer_validity[k] = TRUE]
    ELSE u

bind(u, k, locked) ==
    IF ~u.subbuffer_validity[k] /\ ~locked
    THEN [u EXCEPT !.subbuffers[k] = u.staging_buffer,
                   !.subbuffer_validity[k] = TRUE]
    ELSE u

\* ------------------------------------------------------------ draw queue
\* The part of the program state that draw_frame reads and writes.
World ==
    [parts |-> parts, drawables |-> drawables, draw_queue |-> draw_queue,
     main_command_buffer |-> main_command_buffer, recorded |-> recorded,
     inflight_index |-> inflight_index, futures |-> futures,
     executing |-> executing, frame_counter |-> frame_counter,
     draw_calls |-> draw_calls, bind_busy |-> bind_busy,
     upload_refused |-> upload_refused, ub |-> ub,
     swapchain_extent |-> swapchain_extent, panicked |-> panicked]

Store(g) ==
    \E w \in {g} :
        /\ parts' = w.parts
        /\ drawables' = w.drawables
        /\ draw_queue' = w.draw_queue
        /\ main_command_buffer' = w.main_command_buffer
        /\ recorded' = w.recorded
        /\ inflight_index' = w.inflight_index
        /\ futures' = w.futures
        /\ executing' = w.executing
        /\ frame_counter' = w.frame_counter
        /\ draw_calls' = w.draw_calls
        /\ bind_busy' = w.bind_busy
        /\ upload_refused' = w.upload_refused
        /\ ub' = w.ub
        /\ swapchain_extent' = w.swapchain_extent
        /\ panicked' = w.panicked

\* Graphics::queue_drawable: push the Arc (a clone of the caller's)
queue_drawable(g, d) ==
    [g EXCEPT !.draw_queue = Append(@, d),
              !.drawables[d].strong = @ + 1]

\* One recorded call: op is "bind", "bind_pipeline_graphics" or
\* "draw_indexed"; d is the drawable it is recorded for; n is the owner of a
\* bound buffer or shader, the descriptor-set index of a bound uniform, the
\* pipeline, or the index count.
Cmd(op, d, kind, n) == [op |-> op, d |-> d, kind |-> kind, n |-> n]

\* the bind calls of one bindable list, in list order
BindCmds(bs, d, k) ==
    [i \in 1..Len(bs) |->
        Cmd("bind", d, bs[i].kind,
            IF bs[i].kind = "UniformBufferBinding" THEN k ELSE bs[i].owner)]

\* the body of the loop over the draw queue in recreate_command_buffer
SharedFirstDrawableCmds(g, d, k) ==
    LET dr == g.drawables[d]
        sp == g.parts[dr.shared_part]
    IN BindCmds(sp.bindables, d, k) \o BindCmds(dr.bindables, d, k)
       \o <<Cmd("bind_pipeline_graphics", d, "pipeline", sp.pipeline),
            Cmd("draw_indexed", d, "indexed", dr.index_count)>>

DrawableCmds(g, d, k) ==
    LET dr == g.drawables[d]
        sp == g.parts[dr.shared_part]
    IN BindCmds(dr.bindables, d, k) \o BindCmds(sp.bindables, d, k)
       \o <<Cmd("bind_pipeline_graphics", d, "pipeline", sp.pipeline),
            Cmd("draw_indexed", d, "indexed", dr.index_count)>>

RECURSIVE RecordQueue(_, _, _)
RecordQueue(g, q, k) ==
    IF q = <<>> THEN <<>>
    ELSE DrawableCmds(g, Head(q), k) \o RecordQueue(g, Tail(q), k)

\* the uniform sub-buffers (descriptor sets) a command list binds
BoundSubs(cmds) ==
    {cmds[i].n : i \in {j \in 1..Len(cmds) : cmds[j].kind = "UniformBufferBinding"}}

\* sub-buffer k is used by a submission whose future has not been cleaned up
Locked(g, k) == \E i \in Slots : ~g.futures[i].cleaned /\ k \in g.futures[i].subs

\* sub-buffer k is bound by a submission the GPU has not finished
Busy(g, k) == \E i \in 1..Len(g.executing) : k \in g.executing[i].subs

\* the uniform after the bind calls of a command list, in order
RECURSIVE BindAll(_, _, _, _)
BindAll(u, cmds, k, locked) ==
    IF cmds = <<>> THEN u
    ELSE BindAll(IF Head(cmds).kind = "UniformBufferBinding"
                 THEN bind(u, k, locked) ELSE u,
                 Tail(cmds), k, locked)

\* Graphics::recreate_command_buffer
recreate_command_buffer(g) ==
    LET k == g.inflight_index
        cmds == RecordQueue(g, g.draw_queue, k)
        h == ReleaseAll([ds |-> g.drawables, ps |-> g.parts], g.draw_queue)
    IN [g EXCEPT !.ub = BindAll(@, cmds, k, Locked(g, k)),
                 !.bind_busy = @ \/ (BoundSubs(cmds) # {} /\ Busy(g, k)),
                 !.upload_refused = @ \/ (BoundSubs(cmds) # {} /\ Locked(g, k)
                                          /\ ~g.ub.subbuffer_validity[k]),
                 !.recorded = cmds,
                 !.draw_queue = <<>>,
                 !.drawables = h.ds,
                 !.parts = h.ps,
                 !.main_command_buffer = <<cmds>>]

\* ------------------------------------------------------------ draw_frame
\* Graphics::is_swapchain_bad, for a window of inner size w
is_swapchain_bad(g, w) == g.swapchain_extent # w

\* Graphics::recreate_swapchain: Swapchain::recreate is refused for a
\* zero-area window, and the function then returns without a change
recreate_swapchain(g, w) ==
    IF w = 0 THEN g ELSE [g EXCEPT !.swapchain_extent = w]

\* FenceSignalFuture::wait on futures[i]: returns when the fence is
\* signalled, that is when the GPU has executed everything submitted up to
\* that submission, and releases the resources the submission used
NoWait(g, i) == g

wait(g, i) ==
    LET mine == {j \in 1..Len(g.executing) : g.executing[j].slot = i}
        last == IF mine = {} THEN 0 ELSE CHOOSE j \in mine : \A m \in mine : m <= j
    IN IF g.futures[i].cleaned THEN g
       ELSE [g EXCEPT !.executing = SubSeq(@, last + 1, Len(@)),
                      !.futures[i].cleaned = TRUE]

\* the Ok arm of the match on then_signal_fence_and_flush: the submission
\* is stored in slot i
submit(g, i) ==
    LET cmds == g.main_command_buffer[1]
    IN [g EXCEPT !.main_command_buffer = <<>>,
                 !.futures[i] = [cleaned |-> FALSE, subs |-> BoundSubs(cmds)],
                 !.executing = Append(@, [slot |-> i, subs |-> BoundSubs(cmds)]),
                 !.frame_counter = @ + 1]

\* the last statement of draw_frame
KeepIndex(i) == i

\* the index counted up without the modulo
count_up(i) == i + 1

advance(i) == (i + 1) % IN_FLIGHT_COUNT

\* Graphics::draw_frame for a window of inner size w, where
\* acquire_next_image answers `acq` and the flush of the submission `fl`
draw_frame(g0, w, acq, fl) ==
    LET g == [g0 EXCEPT !.draw_calls = @ + 1]
        g1 == IF is_swapchain_bad(g, w) THEN recreate_swapchain(g, w) ELSE g
        i == g1.inflight_index
        g2 == wait(g1, i)
    IN IF acq = "out_of_date"
       THEN \* acquire_next_image(..).unwrap() on Err(OutOfDate)
            [g2 EXCEPT !.panicked = TRUE]
       ELSE LET g3 == IF g2.main_command_buffer = <<>>
                      THEN recreate_command_buffer(g2) ELSE g2
            IN IF fl = "out_of_date"
               THEN \* the command buffer was taken; nothing was submitted
                    recreate_swapchain([g3 EXCEPT !.main_command_buffer = <<>>], w)
               ELSE LET g4 == submit(g3, i)
                        g5 == IF acq = "suboptimal"
                              THEN recreate_swapchain(g4, w) ELSE g4
                    IN [g5 EXCEPT !.inflight_index = advance(@)]

\* main.rs check_minimized, for a window of inner size w
check_minimized(w) == w = 0

\* the queue_drawable calls of one update (App::run, Ui::draw), in order
RECURSIVE QueueAll(_, _)
QueueAll(g, q) ==
    IF q = <<>> THEN g ELSE QueueAll(queue_drawable(g, Head(q)), Tail(q))

\* main.rs, the Event::RedrawEventsCleared arm, for a window of inner size w:
\* the resize check, the update that queues the drawables q and writes v to
\* the uniform, and draw_frame unless minimized
redraw_events_cleared(g, w, seen, min, q, v, acq, fl) ==
    LET resized == w # seen
        g1 == IF resized THEN recreate_swapchain(recreate_swapchain(g, w), w) ELSE g
        min1 == IF resized THEN check_minimized(w) ELSE min
        g2 == QueueAll([g1 EXCEPT !.ub = access_data(@, v)], q)
    IN [g |-> IF ~min1 THEN draw_frame(g2, w, acq, fl) ELSE g2,
        window_size |-> IF resized THEN w ELSE seen,
        minimized |-> min1]

\* ----------------------------------------------------------- texture cache
\* bound on the number of Texture::new / new_array calls
MaxLoads == 3

\* the threads that can call the loader
Threads == {1, 2}

\* the sources the application loads: <<path, extent, array_layers>>, with
\* array_layers 0 for None
TextureSources == {<<1, 1, 0>>, <<1, 1, 2>>, <<2, 1, 0>>}

\* the sampler layouts asked for: the filter of LayoutCreateArgs
LayoutArgs == {"Nearest", "Linear"}

\* new_inner: the hash of source_file_name, extent and array_layers; the
\* sources of the model hash to different ids
texture_id(source_file_name, extent, array_layers) ==
    <<source_file_name, extent, array_layers>>

TextureIds == {texture_id(src[1], src[2], src[3]) : src \in TextureSources}

\* the outcomes of RwLock::write on a lock the calling thread holds a read
\* guard of: it blocks forever, or it panics
SelfLockOutcomes == {"deadlock", "panic"}

\* TEXTURE_CACHE.read().unwrap().get(&texture_id).and_then(Weak::upgrade)
TextureCacheMiss(cache, heap, id) == 0

TextureCacheGet(cache, heap, id) == Upgrade(heap, cache[id])

\* the application calls Texture::new / new_array on thread t
TexCall(t, src, args) ==
    /\ t \in threads
    /\ pc[t] = "idle"
    /\ loads < MaxLoads
    /\ loads' = loads + 1
    /\ pc' = [pc EXCEPT ![t] = "lookup"]
    /\ frame' = [frame EXCEPT ![t] = [id |-> texture_id(src[1], src[2], src[3]),
                                      args |-> args, layout |-> 0]]
    /\ returned' = [returned EXCEPT ![t] = 0]
    /\ UNCHANGED <<TEXTURE_CACHE, textures, LAYOUT_CACHE, layouts, threads,
                   layout_readers, uploads>>

\* new_inner: the read-locked lookup; a hit returns the cached texture
TexLookup(t) ==
    /\ pc[t] = "lookup"
    /\ LET x == TextureCacheGet(TEXTURE_CACHE, textures, frame[t].id)
       IN IF x # 0
          THEN /\ textures' = [textures EXCEPT ![x].strong = @ + 1]
               /\ returned' = [returned EXCEPT ![t] = x]
               /\ pc' = [pc EXCEPT ![t] = "idle"]
          ELSE /\ pc' = [pc EXCEPT ![t] = "upload"]
               /\ UNCHANGED <<textures, returned>>
    /\ UNCHANGED <<TEXTURE_CACHE, LAYOUT_CACHE, layouts, threads, frame, layout_readers,
                   uploads, loads>>

\* new_inner: the staging buffer, the image, the upload and the image view
TexUpload(t) ==
    /\ pc[t] = "upload"
    /\ uploads' = uploads + 1
    /\ pc' = [pc EXCEPT ![t] = "layout"]
    /\ UNCHANGED <<TEXTURE_CACHE, textures, LAYOUT_CACHE, layouts, threads, frame,
                   returned, layout_readers, loads>>

\* get_descriptor_set_layout: the `if let` over the read-locked lookup. The
\* read guard lives to the end of the `if let`, so the write lock taken for
\* the removal of a dead entry is requested by the thread that holds the
\* read guard. A reader is not admitted while a writer waits.
GetLayoutLookup(t, outcome) ==
    /\ pc[t] = "layout"
    /\ layout_readers = {}
    /\ LET w == LAYOUT_CACHE[frame[t].args]
       IN IF w = 0
          THEN /\ pc' = [pc EXCEPT ![t] = "build"]
               /\ UNCHANGED <<layouts, frame, layout_readers>>
          ELSE IF layouts[w].strong > 0
          THEN /\ layouts' = [layouts EXCEPT ![w].strong = @ + 1]
               /\ frame' = [frame EXCEPT ![t].layout = w]
               /\ pc' = [pc EXCEPT ![t] = "create"]
               /\ UNCHANGED layout_readers
          ELSE /\ IF outcome = "deadlock"
                  THEN /\ layout_readers' = layout_readers \cup {t}
                       /\ pc' = [pc EXCEPT ![t] = "blocked"]
                  ELSE /\ layout_readers' = layout_readers
                       /\ pc' = [pc EXCEPT ![t] = "panicked"]
               /\ UNCHANGED <<layouts, frame>>
    /\ UNCHANGED <<TEXTURE_CACHE, textures, LAYOUT_CACHE, threads, returned, uploads,
                   loads>>

\* get_descriptor_set_layout: the sampler and the layout are built and the
\* layout is inserted under the write lock
GetLayoutBuild(t) ==
    /\ pc[t] = "build"
    /\ layout_readers = {}
    /\ layouts' = Append(layouts, [args |-> frame[t].args, strong |-> 1])
    /\ LAYOUT_CACHE' = [LAYOUT_CACHE EXCEPT ![frame[t].args] = Len(layouts) + 1]
    /\ frame' = [frame EXCEPT ![t].layout = Len(layouts) + 1]
    /\ pc' = [pc EXCEPT ![t] = "create"]
    /\ UNCHANGED <<TEXTURE_CACHE, textures, threads, returned, layout_readers, uploads,
                   loads>>

\* new_inner: the descriptor set and the Texture are built, a Weak of the
\* texture is inserted under the write lock, the texture is returned
TexCreate(t) ==
    /\ pc[t] = "create"
    /\ textures' = Append(textures, [id |-> frame[t].id, layout |-> frame[t].layout,
                                     strong |-> 1])
    /\ TEXTURE_CACHE' = [TEXTURE_CACHE EXCEPT ![frame[t].id] = Len(textures) + 1]
    /\ returned' = [returned EXCEPT ![t] = Len(textures) + 1]
    /\ pc' = [pc EXCEPT ![t] = "idle"]
    /\ UNCHANGED <<LAYOUT_CACHE, layouts, threads, frame, layout_readers, uploads, loads>>

\* a thread of the application that is not inside the loader drops an
\* Arc<Texture>; the last one drops the texture and its Arc of the layout
TexDrop(x) ==
    /\ \E t \in threads : pc[t] = "idle"
    /\ x \in 1..Len(textures)
    /\ textures[x].strong > 0
    /\ textures' = [textures EXCEPT ![x].strong = @ - 1]
    /\ layouts' = IF textures[x].strong = 1
                  THEN [layouts EXCEPT ![textures[x].layout].strong = @ - 1]
                  ELSE layouts
    /\ UNCHANGED <<TEXTURE_CACHE, LAYOUT_CACHE, threads, pc, frame, returned,
                   layout_readers, uploads, loads>>

\* a step of a loader call that is under way
TexStep ==
    \E t \in Threads :
        \/ TexLookup(t)
        \/ TexUpload(t)
        \/ \E outcome \in SelfLockOutcomes : GetLayoutLookup(t, outcome)
        \/ GetLayoutBuild(t)
        \/ TexCreate(t)

\* the statics before the first load, with the threads ts idle
TextureInit(ts) ==
    /\ TEXTURE_CACHE = [id \in TextureIds |-> 0]
    /\ textures = <<>>
    /\ LAYOUT_CACHE = [a \in LayoutArgs |-> 0]
    /\ layouts = <<>>
    /\ threads = ts
    /\ pc = [t \in Threads |-> "idle"]
    /\ frame = [t \in Threads |-> [id |-> <<0, 0, 0>>, args |-> "Nearest", layout |-> 0]]
    /\ returned = [t \in Threads |-> 0]
    /\ layout_readers = {}
    /\ uploads = 0
    /\ loads = 0

\* -------------------------------------------------------------- rationals
\* f32 values are modelled by exact rationals <<n, d>> in lowest terms with
\* d > 0; the inputs are small integers.
RECURSIVE GCD(_, _)
GCD(a, b) == IF b = 0 THEN a ELSE GCD(b, a % b)

IAbs(n) == IF n < 0 THEN -n ELSE n

Rat(n, d) ==
    LET g == GCD(IAbs(n), IAbs(d))
        sg == IF d < 0 THEN -1 ELSE 1
    IN <<(sg * n) \div g, (sg * d) \div g>>

R(n) == <<n, 1>>

RAdd(a, b) == Rat(a[1] * b[2] + b[1] * a[2], a[2] * b[2])

RNeg(a) == <<-a[1], a[2]>>

RSub(a, b) == RAdd(a, RNeg(b))

RMul(a, b) == Rat(a[1] * b[1], a[2] * b[2])

RDiv(a, b) == Rat(a[1] * b[2], a[2] * b[1])

RLt(a, b) == a[1] * b[2] < b[1] * a[2]

RLe(a, b) == a[1] * b[2] <= b[1] * a[2]

RAbs(a) == <<IAbs(a[1]), a[2]>>

RMin(a, b) == IF RLt(b, a) THEN b ELSE a

RMax(a, b) == IF RLt(a, b) THEN b ELSE a

\* x < f32::EPSILON, for the values of the model: their denominators are
\* far below 2^23, so that a value below EPSILON is at most 0
BelowEpsilon(x) == x[1] <= 0

\* ------------------------------------------------------------- utils/math
\* Vec2 of rationals
Vec2(x, y) == <<x, y>>

VAdd(a, b) == <<RAdd(a[1], b[1]), RAdd(a[2], b[2])>>

VSub(a, b) == <<RSub(a[1], b[1]), RSub(a[2], b[2])>>

VNeg(a) == <<RNeg(a[1]), RNeg(a[2])>>

VScale(k, a) == <<RMul(k, a[1]), RMul(k, a[2])>>

dot(a, b) == RAdd(RMul(a[1], b[1]), RMul(a[2], b[2]))

cross(a, b) == RSub(RMul(a[1], b[2]), RMul(a[2], b[1]))

\* Vec2::normalized, for the directions it is applied to: the edges of
\* rectangles, which have one component 0 and the other not
Sign(x) == IF x[1] > 0 THEN R(1) ELSE IF x[1] < 0 THEN R(-1) ELSE R(0)

normalized(a) == <<Sign(a[1]), Sign(a[2])>>

\* Line: a start point p and a direction d
from_position_direction(position, direction) == [p |-> position, d |-> direction]

from_start_end(start, end) == [p |-> start, d |-> VSub(end, start)]

\* Matrix::inverse of the rows <<a, b>>, <<c, d>>: <<>> for None
inverse(m) ==
    LET a == m[1][1]
        b == m[1][2]
        c == m[2][1]
        d == m[2][2]
        det == RSub(RMul(a, d), RMul(b, c))
    IN IF det[1] = 0 THEN <<>>
       ELSE <<<< <<RDiv(d, det), RDiv(RNeg(b), det)>>,
                 <<RDiv(RNeg(c), det), RDiv(a, det)>> >>>>

\* Vec2::apply_matrix and Line::apply_matrix
apply_matrix(v, m) == <<dot(m[1], v), dot(m[2], v)>>

line_apply_matrix(l, m) == [p |-> apply_matrix(l.p, m), d |-> apply_matrix(l.d, m)]

\* Rect: integer corners
Rect(min, max) == [min |-> min, max |-> max]

\* ValidRect::intersects (and Rect::intersects)
Touches(a, b) ==
    ~(\/ a.max[1] < b.min[1]
      \/ a.min[1] > b.max[1]
      \/ a.max[2] < b.min[2]
      \/ a.min[2] > b.max[2])

intersects(a, b) ==
    ~(\/ a.max[1] <= b.min[1]
      \/ a.min[1] >= b.max[1]
      \/ a.max[2] <= b.min[2]
      \/ a.min[2] >= b.max[2])

\* ValidRect::add_offset, for an integer offset
add_offset(r, offset) ==
    [min |-> <<r.min[1] + offset[1], r.min[2] + offset[2]>>,
     max |-> <<r.max[1] + offset[1], r.max[2] + offset[2]>>]

\* -------------------------------------------------------- utils/colliders
\* bound on the number of hitboxes a manager holds
MaxHitboxes == 2

\* HitboxManager.chunk_dimensions
chunk_dimensions == <<32, 32>>

Min2(a, b) == IF b < a THEN b ELSE a

Max2(a, b) == IF b > a THEN b ELSE a

\* HitboxChunk::default
EmptyChunk == [bounding_box |-> <<>>, elements |-> {}]

\* HitboxChunk::expand_bounding_box
NoExpand(chunk, hitbox) ==
    IF chunk.bounding_box = <<>> THEN <<hitbox>> ELSE chunk.bounding_box

expand_bounding_box(chunk, hitbox) ==
    LET bb == IF chunk.elements = {} \/ chunk.bounding_box = <<>>
              THEN hitbox ELSE chunk.bounding_box[1]
    IN <<[min |-> <<Min2(bb.min[1], hitbox.min[1]), Min2(bb.min[2], hitbox.min[2])>>,
          max |-> <<Max2(bb.max[1], hitbox.max[1]), Max2(bb.max[2], hitbox.max[2])>>]>>

\* the least / greatest member of a non-empty set of integers: the folds of
\* recalculate_bounding_box from INFINITY and NEG_INFINITY
SetMin(S) == CHOOSE x \in S : \A y \in S : x <= y

SetMax(S) == CHOOSE x \in S : \A y \in S : x >= y

\* HitboxChunk::recalculate_bounding_box
recalculate_bounding_box(elements) ==
    IF elements = {} THEN <<>>
    ELSE <<[min |-> <<SetMin({h.min[1] : h \in elements}),
                      SetMin({h.min[2] : h \in elements})>>,
            max |-> <<SetMax({h.max[1] : h \in elements}),
                      SetMax({h.max[2] : h \in elements})>>]>>

\* HitboxChunk::insert
chunk_insert(chunk, hitbox) ==
    [bounding_box |-> expand_bounding_box(chunk, hitbox),
     elements |-> chunk.elements \cup {hitbox}]

\* HitboxChunk::remove
chunk_remove(chunk, hitbox) ==
    IF hitbox \in chunk.elements
    THEN [bounding_box |-> recalculate_bounding_box(chunk.elements \ {hitbox}),
          elements |-> chunk.elements \ {hitbox}]
    ELSE chunk

\* HitboxManager::get_chunk_coordinates
ChunkOfMax(hitbox) ==
    <<hitbox.max[1] \div chunk_dimensions[1], hitbox.max[2] \div chunk_dimensions[2]>>

get_chunk_coordinates(hitbox) ==
    <<hitbox.min[1] \div chunk_dimensions[1], hitbox.min[2] \div chunk_dimensions[2]>>

\* HitboxManager::insert: chunks.entry(coords).or_default().insert(rect)
manager_insert(cs, hitbox) ==
    LET c == get_chunk_coordinates(hitbox)
        chunk == IF c \in DOMAIN cs THEN cs[c] ELSE EmptyChunk
    IN [k \in DOMAIN cs \cup {c} |->
           IF k = c THEN chunk_insert(chunk, hitbox) ELSE cs[k]]

\* HitboxManager::remove
manager_remove(cs, hitbox) ==
    LET c == get_chunk_coordinates(hitbox)
    IN IF c \in DOMAIN cs
       THEN [cs EXCEPT ![c] = chunk_remove(@, hitbox)]
       ELSE cs

\* HitboxManager::extend / new, for the hitboxes of a sequence
RECURSIVE extend(_, _)
extend(cs, hitboxes) ==
    IF hitboxes = <<>> THEN cs
    ELSE extend(manager_insert(cs, Head(hitboxes)), Tail(hitboxes))

\* the hitboxes a manager holds
Stored(cs) == UNION {cs[c].elements : c \in DOMAIN cs}

\* the corners of an integer rectangle as Vec2, and its four edges in the
\* order of moving_hit_test: top, right, bottom, left
Edges(r) ==
    LET top_left == Vec2(R(r.min[1]), R(r.max[2]))
        top_right == Vec2(R(r.max[1]), R(r.max[2]))
        bottom_left == Vec2(R(r.min[1]), R(r.min[2]))
        bottom_right == Vec2(R(r.max[1]), R(r.min[2]))
    IN <<from_start_end(top_left, top_right),
         from_start_end(top_right, bottom_right),
         from_start_end(bottom_right, bottom_left),
         from_start_end(bottom_left, top_left)>>

\* HitboxManager::line_collision. distance_at is f32::min(distance_k * t +
\* distance_m, 1.0); normalize_direction turns the remapped line so that its
\* direction has a non-negative distance component; first_contact is the
\* case analysis on the offset at t = 0.
distance_at(t, distance_k, distance_m) == RMin(RAdd(RMul(distance_k, t), distance_m), R(1))

normalize_direction(remapped_collider) ==
    IF RLt(remapped_collider.d[2], R(0))
    THEN from_position_direction(VAdd(remapped_collider.p, remapped_collider.d),
                                 VNeg(remapped_collider.d))
    ELSE remapped_collider

contact_of_unbounded_lines(offset_k, distance_k, offset_m, distance_m) ==
    distance_at(R(0), distance_k, distance_m)

first_contact(offset_k, distance_k, offset_m, distance_m) ==
    IF RLe(R(0), offset_m)
    THEN IF RLe(offset_m, R(1)) THEN distance_at(R(0), distance_k, distance_m)
         ELSE IF RLe(R(0), offset_k) THEN R(1)
         ELSE LET t == RDiv(RSub(R(1), offset_m), offset_k)
              IN IF RLe(t, R(1)) THEN distance_at(t, distance_k, distance_m)
                 ELSE R(1)
    ELSE IF RLe(offset_k, R(0)) THEN R(1)
         ELSE LET t == RDiv(RNeg(offset_m), offset_k)
              IN IF RLe(t, R(1)) THEN distance_at(t, distance_k, distance_m)
                 ELSE R(1)

remapped_contact(remapped_collider) ==
    first_contact(remapped_collider.d[1], remapped_collider.d[2],
                  remapped_collider.p[1], remapped_collider.p[2])

transformed_contact(m, repositioned_collider) ==
    IF m = <<>> THEN R(1)
    ELSE remapped_contact(normalize_direction(line_apply_matrix(repositioned_collider, m[1])))

line_collision(moving_line, movement, collider) ==
    transformed_contact(
        inverse(<< <<moving_line.d[1], movement[1]>>, <<moving_line.d[2], movement[2]>> >>),
        from_position_direction(VSub(collider.p, moving_line.p), collider.d))

\* HitboxManager::nearby_chunks: the keys of the 3 x 3 block around the
\* chunk of the hitbox, in the order of the loops, those present only
RECURSIVE Present(_, _)
Present(cs, keys) ==
    IF keys = <<>> THEN <<>>
    ELSE (IF Head(keys) \in DOMAIN cs THEN <<Head(keys)>> ELSE <<>>)
         \o Present(cs, Tail(keys))

nearby_chunks(cs, hitbox) ==
    LET c == get_chunk_coordinates(hitbox)
        keys == [i \in 1..9 |-> <<c[1] + ((i - 1) % 3) - 1, c[2] + ((i - 1) \div 3) - 1>>]
    IN Present(cs, keys)

\* the orders in which a HashSet can be iterated
Orders(S) ==
    {f \in [1..Cardinality(S) -> S] : \A i, j \in 1..Cardinality(S) : f[i] = f[j] => i = j}

\* the sequences `colliders` can be: the elements of the nearby chunks whose
\* bounding box intersects the target, chunk by chunk, each chunk in any order
RECURSIVE Colliders(_, _, _)
Colliders(cs, keys, target) ==
    IF keys = <<>> THEN {<<>>}
    ELSE LET chunk == cs[Head(keys)]
             mine == IF chunk.bounding_box # <<>>
                        /\ intersects(chunk.bounding_box[1], target)
                     THEN Orders(chunk.elements) ELSE {<<>>}
         IN {o \o rest : o \in mine, rest \in Colliders(cs, Tail(keys), target)}

\* the pairs <<collision_line, source_line>> the loops of moving_hit_test
\* pass to line_collision for one collider, in order
RECURSIVE Facing(_, _)
Facing(prs, movement) ==
    IF prs = <<>> THEN <<>>
    ELSE (IF /\ RLt(cross(Head(prs)[1].d, movement), R(0))
             /\ RLt(R(0), cross(Head(prs)[2].d, movement))
          THEN <<Head(prs)>> ELSE <<>>)
         \o Facing(Tail(prs), movement)

EdgePairs(elem, source_lines, movement) ==
    LET collision_lines == Edges(elem)
        all == [i \in 1..16 |-> <<collision_lines[((i - 1) \div 4) + 1],
                                  source_lines[((i - 1) % 4) + 1]>>]
    IN Facing(all, movement)

\* the body of the innermost loop: h is [min_t, collision_direction,
\* fractions] before the pair pr = <<collision_line, source_line>>, and
\* collision_t the fraction line_collision returned for it
\* (history: `edges` holds the directions of the static edges whose fraction
\* is the min_t kept)
contact(h, pr, collision_t) ==
    LET closer == RLt(RAbs(collision_t), RAbs(h.min_t))
        min_t == IF closer THEN collision_t ELSE h.min_t
        source_d == normalized(pr[2].d)
        collider_d == normalized(pr[1].d)
    IN [min_t |-> min_t,
        collision_direction |->
            IF /\ BelowEpsilon(RSub(RAbs(collision_t), RAbs(min_t)))
               /\ RLt(<<9, 10>>, RAbs(dot(source_d, collider_d)))
            THEN source_d
            ELSE IF closer THEN source_d ELSE h.collision_direction,
        fractions |-> h.fractions \cup {collision_t},
        edges |-> IF closer THEN {collider_d}
                  ELSE IF collision_t = h.min_t THEN h.edges \cup {collider_d}
                  ELSE h.edges]

TestPair(h, pr, movement) == contact(h, pr, line_collision(pr[2], movement, pr[1]))

RECURSIVE TestPairs(_, _, _)
TestPairs(h, prs, movement) ==
    IF prs = <<>> THEN h
    ELSE TestPairs(TestPair(h, Head(prs), movement), Tail(prs), movement)

\* the loop over the colliders
RECURSIVE TestColliders(_, _, _, _, _)
TestColliders(h, colliders, source_lines, movement, target) ==
    IF colliders = <<>> THEN h
    ELSE TestColliders(
             IF ~intersects(Head(colliders), target) THEN h
             ELSE TestPairs(h, EdgePairs(Head(colliders), source_lines, movement),
                            movement),
             Tail(colliders), source_lines, movement, target)

\* lines 259-261: the movement returned for the min_t and the
\* collision_direction the loops end with
stopped_movement(mv, h) ==
    [min_t |-> h.min_t, fractions |-> h.fractions, edges |-> h.edges,
     collision_direction |-> h.collision_direction,
     result |-> VScale(h.min_t, mv)]

returned_movement(mv, h) ==
    [min_t |-> h.min_t, fractions |-> h.fractions, edges |-> h.edges,
     collision_direction |-> h.collision_direction,
     result |-> VAdd(VScale(h.min_t, mv),
                     VScale(RMul(RSub(R(1), h.min_t), dot(mv, h.collision_direction)),
                            h.collision_direction))]

\* HitboxManager::moving_hit_test for an integer rectangle and movement,
\* with `colliders` in the iteration order given: the result, with the
\* min_t it applied and the fractions line_collision returned
moving_hit_test(rect, movement, colliders) ==
    returned_movement(
        Vec2(R(movement[1]), R(movement[2])),
        TestColliders([min_t |-> R(1), collision_direction |-> Vec2(R(0), R(0)),
                       fractions |-> {}, edges |-> {}],
                      colliders, Edges(rect), Vec2(R(movement[1]), R(movement[2])),
                      add_offset(rect, movement)))

\* HitboxManager::new(hitboxes, chunk_dimensions), and no query made
ColliderInit(hitboxes) ==
    /\ chunks = extend(<<>>, hitboxes)
    /\ query = <<>>
    /\ hit = <<>>
    /\ line_query = <<>>
    /\ line_t = <<>>

\* the application inserts / removes a hitbox
\* (the history of the last query is about the manager as it is: a change
\* of the manager forgets it)
HitboxInsert(r) ==
    /\ Cardinality(Stored(chunks)) < MaxHitboxes
    /\ chunks' = manager_insert(chunks, r)
    /\ query' = <<>>
    /\ hit' = <<>>
    /\ UNCHANGED <<line_query, line_t>>

HitboxRemove(r) ==
    /\ chunks' = manager_remove(chunks, r)
    /\ query' = <<>>
    /\ hit' = <<>>
    /\ UNCHANGED <<line_query, line_t>>

\* the application moves a rectangle
MovingHitTest(rect, movement) ==
    /\ query' = <<[rect |-> rect, movement |-> movement]>>
    /\ \E colliders \in Colliders(chunks, nearby_chunks(chunks, rect),
                                  add_offset(rect, movement)) :
           hit' = <<moving_hit_test(rect, movement, colliders)>>
    /\ UNCHANGED <<chunks, line_query, line_t>>

\* HitboxManager::line_collision called on its own (as the unit test does),
\* for lines between integer points and an integer movement
LineCollision(moving_line, movement, collider) ==
    /\ line_query' = <<[moving_line |-> moving_line, movement |-> movement,
                        collider |-> collider]>>
    /\ line_t' = <<line_collision(
                       from_start_end(Vec2(R(moving_line[1][1]), R(moving_line[1][2])),
                                      Vec2(R(moving_line[2][1]), R(moving_line[2][2]))),
                       Vec2(R(movement[1]), R(movement[2])),
                       from_start_end(Vec2(R(collider[1][1]), R(collider[1][2])),
                                      Vec2(R(collider[2][1]), R(collider[2][2]))))>>
    /\ UNCHANGED <<chunks, query, hit>>

\* -------------------------------------------------------- animation clocks
\* (drawables/tiles.rs; drawables/tiles/tilemap.rs keeps the same update)
\* The wall clock advances in units of Millis milliseconds; Instant::now()
\* and elapsed().as_millis() read it.
Millis == 10

\* bound on the wall clock, in units
MaxTime == 17

\* the sprite atlas of the tile set: AtlasWidth x AtlasHeight sprites
AtlasWidth == 2

AtlasHeight == 2

\* TileSet::get_uv_of_sprite(sprite_idx)[0]: the [left, top] corner of the
\* sprite in the atlas, uv_width = tile_width / image width
get_uv_of_sprite(sprite_idx) ==
    <<RMul(R(sprite_idx % AtlasWidth), Rat(1, AtlasWidth)),
      RMul(R(sprite_idx \div AtlasWidth), Rat(1, AtlasHeight))>>

\* tiled::Frame
Frame(tile_id, duration) == [tile_id |-> tile_id, duration |-> duration]

\* the id get_animation gives a tile's animation: the hash of the tile's
\* tileset index, of the tile's id and of every frame's tile id and
\* duration, in this order (the 64-bit hash is taken to be free of
\* collisions, so the id is the hashed tuple itself)
animation_id(tile) ==
    <<tile.tileset_index, tile.id,
      [i \in DOMAIN tile.frames |-> <<tile.frames[i].tile_id, tile.frames[i].duration>>]>>

\* TileAnimation::new(gfx, id, tile_set, frames), called at time t
TileAnimationNew(id, frames, t) ==
    [buffer |-> UniformBufferNew(<<R(0), R(0)>>),
     frames |-> [i \in DOMAIN frames |->
                    <<get_uv_of_sprite(frames[i].tile_id), frames[i].duration>>],
     last_frame_time |-> t,
     current_frame |-> 0,
     id |-> id]

\* last_frame_time.elapsed().as_millis() at time t
elapsed_millis(animation, t) == (t - animation.last_frame_time) * Millis

\* the test of TileMapLoader::update: more than the current frame's
\* duration has passed since the last tick
frame_is_over(animation, t) ==
    elapsed_millis(animation, t) > animation.frames[animation.current_frame + 1][2]

\* the tick without the write to the clock's buffer
next_frame_unwritten(animation, t) ==
    [animation EXCEPT !.current_frame = (@ + 1) % Len(animation.frames),
                      !.last_frame_time = t]

\* the body of the if in TileMapLoader::update: one tick of the clock
next_frame(animation, t) ==
    [animation EXCEPT
        !.current_frame = (@ + 1) % Len(animation.frames),
        !.last_frame_time = t,
        !.buffer = access_data(@,
            animation.frames[((animation.current_frame + 1) % Len(animation.frames)) + 1][1])]

\* the closure TileMapLoader::update applies to every clock
update_animation(animation, t) ==
    IF frame_is_over(animation, t) THEN next_frame(animation, t) ELSE animation

AnimationInit ==
    /\ now = 0
    /\ animations = <<>>
    /\ clock_history = <<>>
    /\ updated = FALSE

\* TileMapLoader::get_animation(gfx, tile) for a tile that has an animation
\* and whose tile set is loaded: the clock registered under the tile's id,
\* or a new clock registered under it
GetAnimation(tile) ==
    /\ tile.frames # <<>>
    /\ IF animation_id(tile) \in DOMAIN animations
       THEN UNCHANGED animations
       ELSE animations' =
                [k \in DOMAIN animations \cup {animation_id(tile)} |->
                    IF k \in DOMAIN animations THEN animations[k]
                    ELSE TileAnimationNew(animation_id(tile), tile.frames, now)]
    /\ clock_history' =
           [k \in DOMAIN clock_history \cup {animation_id(tile)} |->
               IF k \in DOMAIN clock_history
               THEN [clock_history[k] EXCEPT !.tiles = @ \cup {tile}]
               ELSE [created |-> now, ticks |-> 0, tiles |-> {tile}]]
    /\ UNCHANGED <<now, updated>>

\* time passes
AdvanceTime(d) ==
    /\ now + d <= MaxTime
    /\ now' = now + d
    /\ updated' = FALSE
    /\ UNCHANGED <<animations, clock_history>>

\* TileMapLoader::update()
AnimationUpdate ==
    /\ animations' = [k \in DOMAIN animations |-> update_animation(animations[k], now)]
    /\ clock_history' =
           [k \in DOMAIN clock_history |->
               IF frame_is_over(animations[k], now)
               THEN [clock_history[k] EXCEPT !.ticks = @ + 1]
               ELSE clock_history[k]]
    /\ updated' = TRUE
    /\ UNCHANGED now

\* ---------------------------------------------------------------- tile maps
\* (tiles/tilemap.rs) A Tile holds an Arc of its TileSet; the application
\* holds the Arc of each TileMap that load returned. A tile set is alive
\* while a tile of a live map, or a group of a live map's drawable, holds it.
\* The tile sets here have no animated tiles and no collision shapes, so
\* AnimationMapping is empty, update_tileset_mappings finds no updated id
\* and calculate_hitboxes finds no shape.

\* bound on the number of TileMapLoader::load calls
MaxMaps == 2

\* the descriptor (tiled::Tileset) of the tile set file `source`
Descriptor(source) ==
    [source |-> source,
     tile_width |-> IF source = "A" THEN 16 ELSE 8,
     tile_height |-> IF source = "A" THEN 16 ELSE 8,
     tilecount |-> 2]

\* the occupied cells of the layers: <<layer, cell>>, both counted from 1
Occupied(layers) ==
    UNION {{<<l, i>> : i \in {j \in 1..Len(layers[l]) : layers[l][j] # <<>>}} :
           l \in DOMAIN layers}

\* the tiles of the layers
LayerTiles(layers) == {layers[c[1]][c[2]][1] : c \in Occupied(layers)}

\* the tile sets a map record holds: through its tiles and through the
\* groups of its drawable
TileSetRefs(map) ==
    {tile.tile_set : tile \in LayerTiles(map.layers)}
    \cup {map.drawable.groups[g].tile_set : g \in DOMAIN map.drawable.groups}
    \cup UNION {{map.drawable.groups[g].source_tiles[n].tile.tile_set :
                    n \in DOMAIN map.drawable.groups[g].source_tiles} :
                g \in DOMAIN map.drawable.groups}

LiveMaps(maps) == {m \in 1..Len(maps) : maps[m].strong > 0}

\* the tile sets whose strong count is positive
LiveTileSets(maps) == UNION {TileSetRefs(maps[m]) : m \in LiveMaps(maps)}

\* `i + index_offset` with the cells counted instead of the vertices
cell_number(vertices) == Len(vertices) \div 4

\* create_mesh: let index_offset = vertices.len() as u32
index_offset(vertices) == Len(vertices)

\* create_mesh: the four vertices of one positioned tile
tile_vertices(positioned_tile, tile_set, position, scale) ==
    LET min_x == RMul(RAdd(R(positioned_tile.position[1] * tile_set.tile_width),
                           position[1]), scale)
        max_x == RMul(RAdd(R((positioned_tile.position[1] + 1) * tile_set.tile_width),
                           position[1]), scale)
        min_y == RMul(RAdd(R(positioned_tile.position[2] * tile_set.tile_height),
                           position[2]), scale)
        max_y == RMul(RAdd(R((positioned_tile.position[2] + 1) * tile_set.tile_height),
                           position[2]), scale)
        z == RAdd(R(-1), RMul(Rat(1, 100), R(positioned_tile.position[3])))
        uv_z == R(positioned_tile.tile.tile_id)
    IN <<[pos |-> <<min_x, min_y, z>>, uv |-> <<R(0), R(1), uv_z>>],
         [pos |-> <<min_x, max_y, z>>, uv |-> <<R(0), R(0), uv_z>>],
         [pos |-> <<max_x, min_y, z>>, uv |-> <<R(1), R(1), uv_z>>],
         [pos |-> <<max_x, max_y, z>>, uv |-> <<R(1), R(0), uv_z>>]>>

\* create_mesh: the six indices of one tile
tile_indices(offset) ==
    <<0 + offset, 1 + offset, 2 + offset, 2 + offset, 1 + offset, 3 + offset>>

\* create_mesh: one pass of the loop over the tiles
add_tile(mesh, positioned_tile, tile_set, position, scale) ==
    [vertices |-> mesh.vertices
                      \o tile_vertices(positioned_tile, tile_set, position, scale),
     indices |-> mesh.indices \o tile_indices(index_offset(mesh.vertices)),
     topology |-> mesh.topology]

RECURSIVE create_mesh_from(_, _, _, _, _)
create_mesh_from(mesh, tiles, tile_set, position, scale) ==
    IF tiles = <<>> THEN mesh
    ELSE create_mesh_from(add_tile(mesh, Head(tiles), tile_set, position, scale),
                          Tail(tiles), tile_set, position, scale)

\* TileMapDrawable::create_mesh(tiles, tile_set, position, scale)
create_mesh(tiles, tile_set, position, scale) ==
    create_mesh_from([vertices |-> <<>>, indices |-> <<>>, topology |-> "TriangleList"],
                     tiles, tile_set, position, scale)

\* TileMapDrawable::new, first loop: the positioned tiles of the tile sets
\* equal to `source` (TileSet is compared and hashed by descriptor.source),
\* from cell idx of layer layer_idx on, both counted from 0
RECURSIVE grouped_tiles(_, _, _, _, _, _)
grouped_tiles(layers, layer_idx, idx, map_dimensions, sets, source) ==
    IF layer_idx >= Len(layers) THEN <<>>
    ELSE IF idx >= Len(layers[layer_idx + 1])
    THEN grouped_tiles(layers, layer_idx + 1, 0, map_dimensions, sets, source)
    ELSE (IF layers[layer_idx + 1][idx + 1] # <<>>
             /\ sets[layers[layer_idx + 1][idx + 1][1].tile_set].source = source
          THEN <<[tile |-> layers[layer_idx + 1][idx + 1][1],
                  position |-> <<idx % map_dimensions[1],
                                 (map_dimensions[2] - 1) - (idx \div map_dimensions[1]),
                                 layer_idx>>]>>
          ELSE <<>>)
         \o grouped_tiles(layers, layer_idx, idx + 1, map_dimensions, sets, source)

\* the sources of the tile sets the layers use
UsedSources(layers, sets) ==
    {sets[tile.tile_set].source : tile \in LayerTiles(layers)}

\* TileMapDrawable::create_drawable: the group of one tile set
create_drawable(tile_set, mesh, source_tiles) ==
    [source_tiles |-> source_tiles,
     tile_set |-> tile_set,
     vertex_buffer |-> mesh.vertices,
     index_buffer |-> mesh.indices,
     index_count |-> Len(mesh.indices)]

\* the group of the tiles found for one source; the key of the group is the
\* Arc of the first tile found
tile_group(tiles, sets, position, scale) ==
    create_drawable(tiles[1].tile.tile_set,
                    create_mesh(tiles, sets[tiles[1].tile.tile_set].descriptor,
                                position, scale),
                    tiles)

\* TileMapDrawable::new(gfx, position, scale, layers, map_dimensions, camera)
TileMapDrawableNew(position, scale, layers, map_dimensions, sets) ==
    [groups |-> [source \in UsedSources(layers, sets) |->
                    tile_group(grouped_tiles(layers, 0, 0, map_dimensions, sets, source),
                               sets, position, scale)]]

\* TileSet::new(gfx, set)
TileSetNew(source) == [source |-> source, descriptor |-> Descriptor(source)]

\* history of one load_tileset call: the source asked for, the tile sets of
\* that source alive before the call, the size of the heap before the call
\* and the tile set returned
tileset_call(ld, source, arc) ==
    [source |-> source,
     alive |-> {s \in ld.live : ld.tilesets[s].source = source},
     heap |-> Len(ld.tilesets),
     arc |-> arc]

\* TileMapLoader::load_tileset(gfx, set); ld holds the loader's table, the
\* heap of tile sets, the tile sets that are alive and the calls made so far
load_tileset(ld, source) ==
    IF ld.loaded_tilesets[source] # 0 /\ ld.loaded_tilesets[source] \in ld.live
    THEN [ld EXCEPT !.arc = ld.loaded_tilesets[source],
                    !.calls = Append(@, tileset_call(ld, source,
                                                     ld.loaded_tilesets[source]))]
    ELSE [tilesets |-> Append(ld.tilesets, TileSetNew(source)),
          loaded_tilesets |-> [ld.loaded_tilesets EXCEPT ![source] = Len(ld.tilesets) + 1],
          live |-> ld.live \cup {Len(ld.tilesets) + 1},
          arc |-> Len(ld.tilesets) + 1,
          calls |-> Append(ld.calls, tileset_call(ld, source, Len(ld.tilesets) + 1))]

\* TileMapLoader::load_tile_layer: the cells of one layer, in row-major order
RECURSIVE load_tile_layer(_, _, _)
parsed_tile(ld, cells, parsed_tiles) ==
    load_tile_layer(ld, Tail(cells),
                    Append(parsed_tiles, <<[tile_set |-> ld.arc, tile_id |-> Head(cells)[1].id]>>))

load_tile_layer(ld, cells, parsed_tiles) ==
    IF cells = <<>> THEN [ld |-> ld, tiles |-> parsed_tiles]
    ELSE IF Head(cells) = <<>>
    THEN load_tile_layer(ld, Tail(cells), Append(parsed_tiles, <<>>))
    ELSE parsed_tile(load_tileset(ld, Head(cells)[1].source), cells, parsed_tiles)

\* TileMapLoader::load_layers: the finite tile layers of the map, in order
RECURSIVE load_layers(_, _, _)
parsed_layer(r, layers, result) ==
    load_layers(r.ld, Tail(layers), Append(result, r.tiles))

load_layers(ld, layers, result) ==
    IF layers = <<>> THEN [ld |-> ld, layers |-> result]
    ELSE parsed_layer(load_tile_layer(ld, Head(layers), <<>>), layers, result)

\* the TileMap that load builds
TileMapNew(path, position, scale, layers, map_dimensions, tile_dimensions, sets) ==
    [path |-> path,
     strong |-> 1,
     position_offset |-> position,
     scale |-> scale,
     layers |-> layers,
     hitboxes |-> <<>>,
     tile_dimensions |-> tile_dimensions,
     map_dimensions |-> map_dimensions,
     drawable |-> TileMapDrawableNew(position, scale, layers, map_dimensions, sets),
     up_to_date |-> TRUE]

\* what is left of a TileMap whose last Arc was dropped
Dropped(map) ==
    [path |-> map.path,
     strong |-> 0,
     position_offset |-> <<R(0), R(0)>>,
     scale |-> R(1),
     layers |-> <<>>,
     hitboxes |-> <<>>,
     tile_dimensions |-> map.tile_dimensions,
     map_dimensions |-> map.map_dimensions,
     drawable |-> [groups |-> <<>>],
     up_to_date |-> TRUE]

\* TileMap::update(gfx)
tile_map_update(map, sets) ==
    IF ~map.up_to_date
    THEN [map EXCEPT !.up_to_date = TRUE,
                     !.drawable = TileMapDrawableNew(map.position_offset, map.scale,
                                                     map.layers, map.map_dimensions, sets)]
    ELSE map

\* Arc::get_mut(map): a &mut TileMap is had only while no other Arc and no
\* Weak of the map exists; the Weak of the loader's table exists until the
\* entry of the map's path is removed or overwritten
get_mut(maps, table, m) ==
    maps[m].strong = 1 /\ table[maps[m].path] # m

TileMapInit(files) ==
    /\ map_files = files
    /\ tilesets = <<>>
    /\ loaded_tilesets = [source \in {"A", "B"} |-> 0]
    /\ tilemaps = <<>>
    /\ loaded_tilemaps = [path \in DOMAIN files |-> 0]
    /\ tile_load = <<>>
    /\ tile_update = <<>>

\* TileMapLoader::load(gfx, path, position, scale, camera)
TileMapLoad(path, position, scale) ==
    /\ Len(tilemaps) < MaxMaps
    /\ \E r \in {load_layers([tilesets |-> tilesets,
                              loaded_tilesets |-> loaded_tilesets,
                              live |-> LiveTileSets(tilemaps),
                              arc |-> 0,
                              calls |-> <<>>],
                             map_files[path].layers, <<>>)} :
           /\ tilesets' = r.ld.tilesets
           /\ loaded_tilesets' = r.ld.loaded_tilesets
           /\ tilemaps' = Append(tilemaps,
                                 TileMapNew(path, position, scale, r.layers,
                                            <<map_files[path].width, map_files[path].height>>,
                                            <<map_files[path].tile_width,
                                              map_files[path].tile_height>>,
                                            r.ld.tilesets))
           /\ tile_load' = <<[path |-> path,
                              map |-> Len(tilemaps) + 1,
                              alive |-> {m \in LiveMaps(tilemaps) : tilemaps[m].path = path},
                              heap |-> Len(tilemaps),
                              tilesets |-> r.ld.calls]>>
    /\ loaded_tilemaps' = [loaded_tilemaps EXCEPT ![path] = Len(tilemaps) + 1]
    /\ tile_update' = <<>>
    /\ UNCHANGED map_files

\* the application drops the Arc of a map
TileMapDrop(m) ==
    /\ m \in LiveMaps(tilemaps)
    /\ tilemaps' = [tilemaps EXCEPT ![m] = Dropped(@)]
    /\ tile_load' = <<>>
    /\ tile_update' = <<>>
    /\ UNCHANGED <<map_files, tilesets, loaded_tilesets, loaded_tilemaps>>

\* TileMap::layers_mut() and the edit made through the RefMut it returns,
\* which is dropped before the next call
LayersMut(m, layers) ==
    /\ m \in LiveMaps(tilemaps)
    /\ tilemaps' = [tilemaps EXCEPT ![m].up_to_date = FALSE, ![m].layers = layers]
    /\ tile_load' = <<>>
    /\ tile_update' = <<>>
    /\ UNCHANGED <<map_files, tilesets, loaded_tilesets, loaded_tilemaps>>

\* TileMap::set_scale(&mut self, scale)
SetScale(m, scale) ==
    /\ m \in LiveMaps(tilemaps)
    /\ get_mut(tilemaps, loaded_tilemaps, m)
    /\ tilemaps' = [tilemaps EXCEPT ![m].scale = scale, ![m].up_to_date = FALSE]
    /\ tile_load' = <<>>
    /\ tile_update' = <<>>
    /\ UNCHANGED <<map_files, tilesets, loaded_tilesets, loaded_tilemaps>>

\* TileMap::set_position(&mut self, position)
SetPosition(m, position) ==
    /\ m \in LiveMaps(tilemaps)
    /\ get_mut(tilemaps, loaded_tilemaps, m)
    /\ tilemaps' = [tilemaps EXCEPT ![m].position_offset = position,
                                    ![m].up_to_date = FALSE]
    /\ tile_load' = <<>>
    /\ tile_update' = <<>>
    /\ UNCHANGED <<map_files, tilesets, loaded_tilesets, loaded_tilemaps>>

\* the entries of a table of Weak<TileMap> that retain keeps
retain(table, maps) == [path \in DOMAIN table |-> Upgrade(maps, table[path])]

\* TileMapLoader::update(gfx): retain, update_tileset_mappings (nothing to
\* update here), update_tilemap_drawables
TileMapLoaderUpdate ==
    /\ loaded_tilesets' =
           [source \in DOMAIN loaded_tilesets |->
               IF loaded_tilesets[source] \in LiveTileSets(tilemaps)
               THEN loaded_tilesets[source] ELSE 0]
    /\ loaded_tilemaps' = retain(loaded_tilemaps, tilemaps)
    /\ tilemaps' =
           [m \in DOMAIN tilemaps |->
               IF \E path \in DOMAIN loaded_tilemaps :
                      retain(loaded_tilemaps, tilemaps)[path] = m
               THEN tile_map_update(tilemaps[m], tilesets)
               ELSE tilemaps[m]]
    /\ tile_update' =
           <<[dirty |-> {m \in LiveMaps(tilemaps) : ~tilemaps[m].up_to_date},
              rebuilt |-> {m \in LiveMaps(tilemaps) :
                              /\ loaded_tilemaps[tilemaps[m].path] = m
                              /\ ~tilemaps[m].up_to_date}]>>
    /\ tile_load' = <<>>
    /\ UNCHANGED <<map_files, tilesets>>

\* the map files of the application: two maps of 2 x 1 cells
MapFiles ==
    [path \in {"a", "b"} |->
        [width |-> 2, height |-> 1, tile_width |-> 16, tile_height |-> 16,
         layers |->
             IF path = "a"
             THEN << << <<[source |-> "A", id |-> 0]>>, <<>> >> >>
             ELSE << << <<[source |-> "A", id |-> 1]>>, <<[source |-> "B", id |-> 0]>> >>,
                     << <<>>, <<[source |-> "B", id |-> 1]>> >> >>]]

\* TileMapDrawable::new called on its own, for the layers of a map of
\* map_dimensions cells whose tiles belong to the tile sets `sets`
DrawableNew(position, scale, layers, map_dimensions, sets) ==
    /\ mesh_query' = <<[position |-> position, scale |-> scale, layers |-> layers,
                        map_dimensions |-> map_dimensions, sets |-> sets]>>
    /\ mesh_drawable' = <<TileMapDrawableNew(position, scale, layers, map_dimensions, sets)>>

MeshInit ==
    /\ mesh_query = <<>>
    /\ mesh_drawable = <<>>

TileInit == AnimationInit /\ TileMapInit(MapFiles) /\ MeshInit

\* ------------------------------------------------------ texture arrays
\* bound on the width and the height of an image and of a layer, in pixels
MaxImageSize == 4

\* image_info.bytes_per_pixel(), asserted by new_array
bytes_per_pixel == 4

\* the buffer png::Reader::next_frame fills: the rows of the image from the
\* top, bytes_per_pixel bytes per pixel; every byte is written as its own
\* place in the file, so that a copy tells where it was taken from
decoded(width, height) == [k \in 1..(bytes_per_pixel * width * height) |-> k]

\* buffer.chunks(chunk_size): the number of chunks, and the i-th of them
\* (the last one is shorter when the length is no multiple of chunk_size)
chunk_count(buffer, chunk_size) == (Len(buffer) + chunk_size - 1) \div chunk_size

chunks_nth(buffer, chunk_size, i) ==
    SubSeq(buffer, i * chunk_size + 1, Min2((i + 1) * chunk_size, Len(buffer)))

\* the chunk copied in place: target_chunk_idx = i
source_chunk_idx(i, layer_dimensions, cols) == i

\* the body of the loop up to target_chunk_idx, for the i-th chunk
target_chunk_idx(i, layer_dimensions, cols) ==
    LET chunks_per_layer == layer_dimensions[2]
        chunks_per_row == cols
        layers_per_row == chunks_per_row
        chunk_x == i % chunks_per_row
        chunk_y == i \div chunks_per_row
        layer_x == chunk_x
        layer_y == chunk_y \div chunks_per_layer
        layer_idx == layer_x + layer_y * layers_per_row
    IN  chunks_per_layer * layer_idx + (chunk_y % chunks_per_layer)

\* rearranged_image_data[target_chunk_start..target_chunk_end]
\*     .clone_from_slice(source_chunk)
clone_from_slice(data, target_chunk_start, source_chunk) ==
    [k \in 1..Len(data) |->
        IF k > target_chunk_start /\ k <= target_chunk_start + Len(source_chunk)
        THEN source_chunk[k - target_chunk_start]
        ELSE data[k]]

\* one turn of the loop: `i % chunks_per_row` panics when cols is 0, the
\* slice panics when it ends past the buffer, clone_from_slice panics when
\* the source chunk is shorter than chunk_size
copy_chunk(st, i, buffer, layer_dimensions, cols, chunk_size) ==
    IF st.panicked THEN st
    ELSE IF cols = 0 THEN [st EXCEPT !.panicked = TRUE]
    ELSE IF target_chunk_idx(i, layer_dimensions, cols) * chunk_size + chunk_size
                > Len(buffer)
              \/ Len(chunks_nth(buffer, chunk_size, i)) # chunk_size
         THEN [st EXCEPT !.panicked = TRUE]
         ELSE [panicked |-> FALSE,
               data |-> clone_from_slice(st.data,
                            target_chunk_idx(i, layer_dimensions, cols) * chunk_size,
                            chunks_nth(buffer, chunk_size, i)),
               targets |-> Append(st.targets, target_chunk_idx(i, layer_dimensions, cols))]

RECURSIVE copy_chunks(_, _, _, _, _, _)
copy_chunks(st, i, buffer, layer_dimensions, cols, chunk_size) ==
    IF i >= chunk_count(buffer, chunk_size) THEN st
    ELSE copy_chunks(copy_chunk(st, i, buffer, layer_dimensions, cols, chunk_size),
                     i + 1, buffer, layer_dimensions, cols, chunk_size)

\* bytes_closure of Texture::new_array for an image of width x height
\* pixels: the rearranged data, and (history) the target of every chunk
bytes_closure(width, height, layer_dimensions) ==
    copy_chunks([panicked |-> FALSE,
                 data |-> [k \in 1..(bytes_per_pixel * width * height) |-> 0],
                 targets |-> <<>>],
                0, decoded(width, height), layer_dimensions,
                width \div layer_dimensions[1], bytes_per_pixel * layer_dimensions[1])

\* Texture::new_array on a cache miss: the image file is decoded and
\* rearranged for the upload
NewArrayUpload(width, height, layer_dimensions) ==
    /\ array_query' = <<[width |-> width, height |-> height,
                         layer_dimensions |-> layer_dimensions,
                         cols |-> width \div layer_dimensions[1],
                         rows |-> height \div layer_dimensions[2],
                         buffer |-> decoded(width, height)]>>
    /\ array_data' = <<bytes_closure(width, height, layer_dimensions)>>

ArrayInit ==
    /\ array_query = <<>>
    /\ array_data = <<>>

\* ------------------------------------------------------- input and UI
\* bound on the readings of Instant::now()
MaxInstant == 1

\* bound on the accumulated motion and scroll deltas, and on the length of
\* Ui.captured_buttons
MaxDelta == 1

MaxCaptured == 1

\* the button codes of DeviceEvent::Button
Buttons == {1, 2}

\* Option<ButtonState> of a button: None, Pressed(since), Held(since), Released
NoState == [state |-> "None", since |-> 0]

Pressed(since) == [state |-> "Pressed", since |-> since]

Held(since) == [state |-> "Held", since |-> since]

Released == [state |-> "Released", since |-> 0]

\* Mouse::is_button_pressed, Mouse::is_button_held (the press instant)
is_button_pressed(map, button_id) == map[button_id].state = "Pressed"

is_button_held(map, button_id) == map[button_id].state = "Held"

\* a handler that takes every press for a new one
mouse_button_restarted(map, button, state, instant_now) ==
    IF state = "Pressed" THEN [map EXCEPT ![button] = Pressed(instant_now)]
    ELSE IF map[button].state \in {"Pressed", "Held"}
         THEN [map EXCEPT ![button] = Released]
         ELSE map

\* Mouse::_event_handler on DeviceEvent::Button { button, state }
mouse_button(map, button, state, instant_now) ==
    IF map[button].state \in {"Pressed", "Held"}
    THEN IF state = "Released" THEN [map EXCEPT ![button] = Released] ELSE map
    ELSE IF state = "Pressed" THEN [map EXCEPT ![button] = Pressed(instant_now)] ELSE map

\* a clear that leaves the buttons alone
keep_presses(map) == map

\* the loop of Mouse::clear_presses over button_map
held_presses(map) ==
    [b \in DOMAIN map |-> IF map[b].state = "Pressed" THEN Held(map[b].since) ELSE map[b]]

\* what Ui::handle_event compares with the layout of an element
normalized_cursor(position, extent) ==
    <<RDiv(RMul(R(2), position[1]), R(extent[1])),
      RDiv(RMul(R(-2), position[2]), R(extent[2]))>>

\* the hit test of Ui::handle_event
cursor_inside(cursor, elem_hitbox) ==
    /\ RLe(elem_hitbox.x_position, cursor[1])
    /\ RLe(cursor[1], RAdd(elem_hitbox.x_position, elem_hitbox.width))
    /\ RLe(elem_hitbox.y_position, cursor[2])
    /\ RLe(cursor[2], RAdd(elem_hitbox.y_position, elem_hitbox.height))

\* the loop of Ui::handle_event over the scene from its last element:
\* consume_event, and the element that handled the press if one did
RECURSIVE press_elements(_, _, _, _)
press_elements(elements, n, cursor, result) ==
    IF n = 0 THEN result
    ELSE IF cursor_inside(cursor, elements[n].layout)
         THEN IF elements[n].handles
              THEN [consume_event |-> TRUE, clicked |-> <<elements[n]>>]
              ELSE press_elements(elements, n - 1, cursor,
                                  [result EXCEPT !.consume_event = TRUE])
         ELSE press_elements(elements, n - 1, cursor, result)

\* Ui::handle_event on a press: the new clicked_element and captured_buttons
\* and the value returned
ui_press(ui, button, position, extent) ==
    LET r == press_elements(ui.scene, Len(ui.scene),
                            normalized_cursor(position, extent),
                            [consume_event |-> FALSE, clicked |-> ui.clicked_element])
    IN  [scene |-> ui.scene,
         clicked_element |-> r.clicked,
         captured_buttons |-> IF r.consume_event THEN Append(ui.captured_buttons, button)
                              ELSE ui.captured_buttons,
         consumed |-> r.consume_event]

\* captured_buttons.retain(|p| *p != *button)
retain_others(captured, button) == SelectSeq(captured, LAMBDA p : p # button)

\* Ui::handle_event on a release
ui_release(ui, button) ==
    IF ui.clicked_element # <<>>
    THEN [scene |-> ui.scene, clicked_element |-> <<>>,
          captured_buttons |-> ui.captured_buttons, consumed |-> TRUE]
    ELSE IF \E i \in DOMAIN ui.captured_buttons : ui.captured_buttons[i] = button
         THEN [scene |-> ui.scene, clicked_element |-> <<>>,
               captured_buttons |-> retain_others(ui.captured_buttons, button),
               consumed |-> TRUE]
         ELSE [scene |-> ui.scene, clicked_element |-> <<>>,
               captured_buttons |-> ui.captured_buttons, consumed |-> FALSE]

\* Ui::handle_event on DeviceEvent::Button { button, state }
ui_handle_event(ui, button, state, position, extent) ==
    IF state = "Pressed" THEN ui_press(ui, button, position, extent)
    ELSE ui_release(ui, button)

\* the Ui as one value
TheUi == [scene |-> scene, clicked_element |-> clicked_element,
          captured_buttons |-> captured_buttons]

\* Mouse::new, Ui::new
InputInit ==
    /\ cursor_position = <<R(0), R(0)>>
    /\ mouse_movement = <<0, 0>>
    /\ scroll_wheel_movement = 0
    /\ button_map = [b \in Buttons |-> NoState]
    /\ instant = 0
    /\ scene = <<>>
    /\ clicked_element = <<>>
    /\ captured_buttons = <<>>
    /\ down = {}
    /\ routed = [b \in Buttons |-> "none"]
    /\ input_last = [op |-> "new"]

\* Instant::now() reads later
TimePasses ==
    /\ instant < MaxInstant
    /\ instant' = instant + 1
    /\ input_last' = [op |-> "other"]
    /\ UNCHANGED <<cursor_position, mouse_movement, scroll_wheel_movement, button_map,
                   scene, clicked_element, captured_buttons, down, routed>>

\* Ui::set_scene
SetScene(new_scene) ==
    /\ scene' = new_scene
    /\ input_last' = [op |-> "other"]
    /\ UNCHANGED <<cursor_position, mouse_movement, scroll_wheel_movement, button_map,
                   instant, clicked_element, captured_buttons, down, routed>>

\* the closure of event_loop.run on DeviceEvent::Button: the Ui sees the
\* event first, the Input only when the Ui returned false
DeviceButton(button, state, extent) ==
    LET ui == ui_handle_event(TheUi, button, state, cursor_position, extent)
    IN  /\ Len(ui.captured_buttons) <= MaxCaptured
        /\ clicked_element' = ui.clicked_element
        /\ captured_buttons' = ui.captured_buttons
        /\ button_map' = IF ui.consumed THEN button_map
                         ELSE mouse_button(button_map, button, state, instant)
        /\ down' = IF state = "Pressed" THEN down \cup {button} ELSE down \ {button}
        /\ routed' = IF state = "Pressed"
                     THEN [routed EXCEPT ![button] = IF ui.consumed THEN "ui" ELSE "input"]
                     ELSE routed
        /\ input_last' = [op |-> "button", button |-> button, state |-> state,
                          consumed |-> ui.consumed, press |-> routed[button]]
        /\ UNCHANGED <<cursor_position, mouse_movement, scroll_wheel_movement, instant,
                       scene>>

\* the closure on DeviceEvent::MouseMotion { delta }
MouseMotion(delta) ==
    /\ mouse_movement[1] + delta[1] <= MaxDelta
    /\ mouse_movement[2] + delta[2] <= MaxDelta
    /\ mouse_movement' = <<mouse_movement[1] + delta[1], mouse_movement[2] + delta[2]>>
    /\ input_last' = [op |-> "other"]
    /\ UNCHANGED <<cursor_position, scroll_wheel_movement, button_map, instant, scene,
                   clicked_element, captured_buttons, down, routed>>

\* the closure on DeviceEvent::MouseWheel { delta: LineDelta(_, val) }
MouseWheel(val) ==
    /\ scroll_wheel_movement + val <= MaxDelta
    /\ scroll_wheel_movement' = scroll_wheel_movement + val
    /\ input_last' = [op |-> "other"]
    /\ UNCHANGED <<cursor_position, mouse_movement, button_map, instant, scene,
                   clicked_element, captured_buttons, down, routed>>

\* the closure on WindowEvent::CursorMoved { position }
CursorMoved(position, inner_size) ==
    /\ cursor_position' = <<R(position[1] - (inner_size[1] \div 2)),
                            R((inner_size[2] \div 2) - position[2])>>
    /\ input_last' = [op |-> "other"]
    /\ UNCHANGED <<mouse_movement, scroll_wheel_movement, button_map, instant, scene,
                   clicked_element, captured_buttons, down, routed>>

\* Input::clear_presses, called at the end of the frame
ClearPresses ==
    /\ scroll_wheel_movement' = 0
    /\ mouse_movement' = <<0, 0>>
    /\ button_map' = held_presses(button_map)
    /\ input_last' = [op |-> "clear_presses"]
    /\ UNCHANGED <<cursor_position, instant, scene, clicked_element, captured_buttons,
                   down, routed>>

\* ------------------------------------------- the UniformBuffer on its own
\* bound on the values of the staging buffer
MaxValue == 2

\* everything of the renderer core but the uniform buffer
core_vars == <<cache_vars, heap_vars, queue_vars, frame_vars, swapchain_extent, panicked,
               loop_vars>>

\* UniformBuffer::new
UniformNew(data) ==
    /\ ub' = UniformBufferNew(data)
    /\ uniform_last' = [op |-> "new", data |-> data]

\* UniformBuffer::access_data with a closure that stores `v`
UniformAccess(v) ==
    /\ ub' = access_data(ub, v)
    /\ uniform_last' = [op |-> "access_data", data |-> v]

\* UniformBufferBinding::bind with in-flight index k, where Subbuffer::write
\* fails (`locked`) or not
UniformBind(k, locked) ==
    /\ ub' = bind(ub, k, locked)
    /\ uniform_last' = [op |-> "bind", k |-> k, locked |-> locked,
                        valid |-> ub.subbuffer_validity[k],
                        subbuffer |-> ub.subbuffers[k]]

UniformInit == uniform_last = [op |-> "none"]

\* ---------------------------------------------------- static tile groups
\* bound on the width and the height of a tile group, in cells
MaxGrid == 2

\* TileSet::get_uv_of_sprite(sprite_idx): the four corners of the sprite
sprite_uvs(sprite_idx) ==
    LET left == RMul(R(sprite_idx % AtlasWidth), Rat(1, AtlasWidth))
        right == RMul(R((sprite_idx % AtlasWidth) + 1), Rat(1, AtlasWidth))
        top == RMul(R(sprite_idx \div AtlasWidth), Rat(1, AtlasHeight))
        bottom == RMul(R((sprite_idx \div AtlasWidth) + 1), Rat(1, AtlasHeight))
    IN  <<<<left, top>>, <<right, top>>, <<left, bottom>>, <<right, bottom>>>>

\* the four vertices StaticTileGroup::new pushes for the tile at (x, y)
quad_vertices(x, y, tile_idx, tile_scale) ==
    LET left == RMul(R(x), tile_scale)
        right == RMul(R(x + 1), tile_scale)
        bottom == RMul(R(y + 1), RNeg(tile_scale))
        top == RMul(R(y), RNeg(tile_scale))
    IN  <<[pos |-> <<left, top>>, uv |-> sprite_uvs(tile_idx)[1]],
          [pos |-> <<right, top>>, uv |-> sprite_uvs(tile_idx)[2]],
          [pos |-> <<left, bottom>>, uv |-> sprite_uvs(tile_idx)[3]],
          [pos |-> <<right, bottom>>, uv |-> sprite_uvs(tile_idx)[4]]>>

\* let index_offset = 4 * (y * dimensions[0] + x)
quad_index_offset(x, y, dimensions) == 4 * (y * dimensions[1] + x)

\* the body of the loops of StaticTileGroup::new for the cell (x, y)
push_quad(mesh, x, y, dimensions, tiles, tile_scale) ==
    IF tiles[y * dimensions[1] + x + 1] = <<>> THEN mesh
    ELSE [vertices |-> mesh.vertices
                           \o quad_vertices(x, y, tiles[y * dimensions[1] + x + 1][1],
                                            tile_scale),
          indices |-> mesh.indices
                          \o [k \in 1..6 |-> <<0, 1, 2, 2, 1, 3>>[k]
                                                 + quad_index_offset(x, y, dimensions)]]

\* the loops over y and x, as one loop over the cells row by row
RECURSIVE push_quads(_, _, _, _, _)
push_quads(mesh, cell, dimensions, tiles, tile_scale) ==
    IF cell >= dimensions[1] * dimensions[2] THEN mesh
    ELSE push_quads(push_quad(mesh, cell % dimensions[1], cell \div dimensions[1],
                              dimensions, tiles, tile_scale),
                    cell + 1, dimensions, tiles, tile_scale)

\* StaticTileGroup::new: the vertices and the indices handed to the
\* VertexBuffer and the IndexBuffer of the drawable
StaticTileGroupNew(dimensions, tiles, tile_scale) ==
    /\ group_query' = <<[dimensions |-> dimensions, tiles |-> tiles,
                         tile_scale |-> tile_scale]>>
    /\ group_mesh' = <<push_quads([vertices |-> <<>>, indices |-> <<>>], 0, dimensions,
                                  tiles, tile_scale)>>

GroupInit ==
    /\ group_query = <<>>
    /\ group_mesh = <<>>

\* ------------------------------------------------- animation frame choice
\* bounds on the number of frames of an animation, on the duration of a
\* frame and on the time of day, in milliseconds
MaxFrameList == 3

MaxDuration == 2

MaxNow == 7

\* animation.iter().map(|frame| frame.duration).sum::<u32>()
RECURSIVE animation_length(_)
animation_length(animation) ==
    IF animation = <<>> THEN 0
    ELSE Head(animation).duration + animation_length(Tail(animation))

\* the time of day taken as it is
unreduced(now_millis, length) == now_millis

\* now.duration_since(UNIX_EPOCH).unwrap().as_millis() % animation_length
sub_duration_of(now_millis, length) == now_millis % length

\* the while loop: it stops at the first frame that is not shorter than what
\* is left; animation[frame_idx] panics past the last frame
RECURSIVE select_frame(_, _, _)
select_frame(animation, sub_duration, frame_idx) ==
    IF frame_idx >= Len(animation)
    THEN [panicked |-> TRUE, frame_idx |-> frame_idx, sub_duration |-> sub_duration]
    ELSE IF sub_duration > animation[frame_idx + 1].duration
         THEN select_frame(animation, sub_duration - animation[frame_idx + 1].duration,
                           frame_idx + 1)
         ELSE [panicked |-> FALSE, frame_idx |-> frame_idx, sub_duration |-> sub_duration]

\* AnimationMapping::from for one animated tile of the tile set (the same
\* lines choose uv_z in TileMapDrawable::create_mesh); a division by zero
\* panics
FrameChoice(animation, now_millis) ==
    /\ frame_query' = <<[animation |-> animation, now |-> now_millis]>>
    /\ frame_choice' =
           IF animation_length(animation) = 0
           THEN <<[panicked |-> TRUE, frame_idx |-> 0, sub_duration |-> 0]>>
           ELSE <<select_frame(animation,
                               sub_duration_of(now_millis, animation_length(animation)), 0)>>

FrameInit ==
    /\ frame_query = <<>>
    /\ frame_choice = <<>>

ExtraInit == ArrayInit /\ InputInit /\ UniformInit /\ GroupInit /\ FrameInit

\* the state outside the renderer core when the program starts
RestInit == TextureInit({1}) /\ ColliderInit(<<>>) /\ TileInit /\ ExtraInit

\* --------------------------------------------------------------- actions
\* Which history a specification keeps: the call counters, the recorded
\* calls, both or none. What it does not keep stays at its initial value.
Keep(g, counters, calls) ==
    [g EXCEPT !.draw_calls = IF counters THEN @ ELSE 0,
              !.frame_counter = IF counters THEN @ ELSE 0,
              !.recorded = IF calls THEN @ ELSE <<>>]

\* the application builds a drawable at call site `site`
New(site, index_count) ==
    /\ ~panicked
    /\ Len(drawables) < MaxDrawables
    /\ StoreCache(new(CacheWorld, site, index_count))
    /\ UNCHANGED <<rest_vars, queue_vars, frame_vars, ub, swapchain_extent, panicked, loop_vars>>

\* the application drops a DrawableEntry it owns
DropEntry(d) ==
    /\ ~panicked
    /\ d \in entries
    /\ entries' = entries \ {d}
    /\ LET h == ReleaseOne([ds |-> drawables, ps |-> parts], d)
       IN /\ drawables' = h.ds
          /\ parts' = h.ps
    /\ UNCHANGED <<rest_vars, shared_data_map, new_log, queue_vars, frame_vars, ub, swapchain_extent,
                   panicked, loop_vars>>

\* the application queues a drawable it owns
QueueDrawable(d) ==
    /\ ~panicked
    /\ d \in entries
    /\ Len(draw_queue) < MaxQueue
    /\ Store(queue_drawable(World, d))
    /\ UNCHANGED <<rest_vars, cache_vars, loop_vars>>

\* the application writes the uniform
AccessData(v) ==
    /\ ~panicked
    /\ ub' = access_data(ub, v)
    /\ UNCHANGED <<rest_vars, cache_vars, heap_vars, queue_vars, frame_vars, swapchain_extent,
                   panicked, loop_vars>>

\* a successful draw_frame call, no history kept
Draw ==
    /\ ~panicked
    /\ Store(Keep(draw_frame(World, window_extent, "ok", "ok"), FALSE, FALSE))
    /\ UNCHANGED <<rest_vars, cache_vars, loop_vars>>

\* a successful draw_frame call, the recorded calls kept
DrawRecorded ==
    /\ ~panicked
    /\ Store(Keep(draw_frame(World, window_extent, "ok", "ok"), FALSE, TRUE))
    /\ UNCHANGED <<rest_vars, cache_vars, loop_vars>>

\* a draw_frame call with any answer of the swapchain, the counters kept
DrawFrame(acq, fl) ==
    /\ ~panicked
    /\ draw_calls < MaxFrames
    /\ Store(Keep(draw_frame(World, window_extent, acq, fl), TRUE, FALSE))
    /\ UNCHANGED <<rest_vars, cache_vars, loop_vars>>

\* the GPU finishes its oldest submission and signals the fence
GpuComplete ==
    /\ ~panicked
    /\ executing # <<>>
    /\ executing' = Tail(executing)
    /\ UNCHANGED <<rest_vars, cache_vars, heap_vars, queue_vars, inflight_index, futures,
                   frame_counter, draw_calls, bind_busy, upload_refused, ub,
                   swapchain_extent, panicked, loop_vars>>

\* the window system resizes (or minimizes) the window
Resize(w) ==
    /\ ~panicked
    /\ w # window_extent
    /\ window_extent' = w
    /\ UNCHANGED <<rest_vars, cache_vars, heap_vars, queue_vars, frame_vars, ub, swapchain_extent,
                   panicked, window_size, minimized>>

\* the sequences of owned drawables of length at most n
QueueSeqs(n) == UNION {[1..m -> entries] : m \in 0..n}

\* one redraw step of the event loop
RedrawEventsCleared(q, v, acq, fl) ==
    /\ ~panicked
    /\ Len(draw_queue) + Len(q) <= MaxQueue
    /\ \E r \in {redraw_events_cleared(World, window_extent, window_size, minimized,
                                        q, v, acq, fl)} :
          /\ Store(Keep(r.g, FALSE, FALSE))
          /\ window_size' = r.window_size
          /\ minimized' = r.minimized
    /\ UNCHANGED <<rest_vars, cache_vars, window_extent>>

\* -------------------------------------------------------- specifications
\* Graphics::new: an empty cache and queue, IN_FLIGHT_COUNT empty
\* submissions in the fence slots, a swapchain of the window's size
GraphicsNew ==
    /\ draw_queue = <<>>
    /\ main_command_buffer = <<>>
    /\ recorded = <<>>
    /\ inflight_index = 0
    /\ futures = [k \in Slots |-> [cleaned |-> FALSE, subs |-> {}]]
    /\ executing = [k \in 1..IN_FLIGHT_COUNT |-> [slot |-> k - 1, subs |-> {}]]
    /\ frame_counter = 0
    /\ draw_calls = 0
    /\ bind_busy = FALSE
    /\ upload_refused = FALSE
    /\ ub = UniformBufferNew(0)
    /\ swapchain_extent = 1
    /\ panicked = FALSE
    /\ window_extent = 1
    /\ window_size = 1
    /\ minimized = FALSE

EmptyCache ==
    [shared_data_map |-> [s \in Sites |-> 0], parts |-> <<>>, drawables |-> <<>>,
     entries |-> {}, new_log |-> [site |-> 0, hit |-> FALSE, events |-> <<>>]]

\* App::new: the scene the application builds before the event loop runs,
\* two drawables from one call site and one from another
Scene == new(new(new(EmptyCache, 1, 6), 1, 12), 2, 6)

StartsWith(c) ==
    /\ shared_data_map = c.shared_data_map
    /\ parts = c.parts
    /\ drawables = c.drawables
    /\ entries = c.entries
    /\ new_log = c.new_log

\* The shared-part cache driven through the renderer's interface: drawables
\* are built, queued, drawn and dropped in any order.
Init == GraphicsNew /\ StartsWith(EmptyCache) /\ RestInit

Next ==
    \/ \E site \in Sites : New(site, 6)
    \/ \E d \in entries : DropEntry(d)
    \/ \E d \in entries : QueueDrawable(d)
    \/ Draw

Spec == Init /\ [][Next]_vars

\* Command recording: the drawables of the scene are queued, dropped and
\* drawn in any order.
InitRecord == GraphicsNew /\ StartsWith(Scene) /\ RestInit

NextRecord ==
    \/ \E d \in entries : QueueDrawable(d)
    \/ \E d \in entries : DropEntry(d)
    \/ DrawRecorded

SpecRecord == InitRecord /\ [][NextRecord]_vars

\* The frame rotation and the uniform buffer: the scene is queued, the
\* uniform is written, frames are drawn with any answer of the swapchain,
\* and the GPU finishes submissions at its own pace.
InitFrame == GraphicsNew /\ StartsWith(Scene) /\ RestInit

NextFrame ==
    \/ \E d \in entries : QueueDrawable(d)
    \/ \E v \in Values : AccessData(v)
    \/ \E acq \in AcquireResults, fl \in FlushResults : DrawFrame(acq, fl)
    \/ GpuComplete

SpecFrame == InitFrame /\ [][NextFrame]_vars

\* The event loop: redraw steps, window resizes and the GPU.
InitLoop == GraphicsNew /\ StartsWith(Scene) /\ RestInit

NextLoop ==
    \/ \E w \in Extents : Resize(w)
    \/ \E q \in QueueSeqs(1), v \in Values, acq \in AcquireResults,
          fl \in FlushResults : RedrawEventsCleared(q, v, acq, fl)
    \/ GpuComplete

SpecLoop == InitLoop /\ [][NextLoop]_vars

\* ------------------------------------------------------------ properties
\* the drawables something still refers to: the application's entries and
\* the draw queue
Referenced == entries \cup {draw_queue[i] : i \in 1..Len(draw_queue)}

\* the number of events of a log that satisfy a test
CountEvents(log, Test(_)) == Cardinality({i \in 1..Len(log) : Test(log[i])})

\* the positions of the bind_to_pipeline events of a bindable in a log
ConfiguredAt(log, b) ==
    {i \in 1..Len(log) : /\ log[i].op = "bind_to_pipeline"
                         /\ log[i].kind = b.kind
                         /\ log[i].owner = b.owner}

\* C1: drawables built at one call site while an earlier one of that site is
\* alive share one shared part (one pipeline and one layout); drawables built
\* at different call sites have distinct pipelines although their bindables
\* have the same structure.
C1_SharedPartPerCallSite ==
    \A d1 \in Referenced, d2 \in Referenced :
        LET a == drawables[d1]
            b == drawables[d2]
        IN /\ a.site = b.site =>
                /\ a.shared_part = b.shared_part
                /\ parts[a.shared_part].strong > 0
           /\ a.site # b.site =>
                /\ parts[a.shared_part].pipeline # parts[b.shared_part].pipeline
                /\ parts[a.shared_part].layout # parts[b.shared_part].layout
                /\ parts[a.shared_part].bindables = parts[b.shared_part].bindables

C1_Witness ==
    \E d1 \in entries, d2 \in entries, d3 \in entries :
        /\ d1 # d2
        /\ drawables[d1].site = drawables[d2].site
        /\ drawables[d1].shared_part = drawables[d2].shared_part
        /\ drawables[d3].site # drawables[d1].site
        /\ parts[drawables[d3].shared_part].pipeline
               # parts[drawables[d1].shared_part].pipeline

\* C2: a GenericDrawable::new call that hits the cache calls the instance
\* closure and nothing else; a call that misses calls each closure once, lets
\* every instance bindable configure the pipeline before any shared bindable,
\* each bindable exactly once, builds the pipeline once, and registers the
\* shared part under the call site as its last step.
C2_NewCallsInOrder ==
    LET d == Len(drawables)
        log == new_log.events
        Is(op) == CountEvents(log, LAMBDA e : e.op = op)
    IN (d > 0 /\ drawables[d].strong > 0) =>
         LET dr == drawables[d]
             sp == parts[dr.shared_part]
         IN IF new_log.hit
            THEN /\ Is("init_bindables") = 1
                 /\ Is("init_shared_bindables") = 0
                 /\ Is("bind_to_pipeline") = 0
                 /\ Is("build") = 0
                 /\ Is("cache_drawable_shared_part") = 0
            ELSE /\ Is("init_bindables") = 1
                 /\ Is("init_shared_bindables") = 1
                 /\ Is("build") = 1
                 /\ Is("cache_drawable_shared_part") = 1
                 /\ Is("bind_to_pipeline") = Len(dr.bindables) + Len(sp.bindables)
                 /\ \A i \in 1..Len(dr.bindables) :
                        Cardinality(ConfiguredAt(log, dr.bindables[i])) = 1
                 /\ \A j \in 1..Len(sp.bindables) :
                        Cardinality(ConfiguredAt(log, sp.bindables[j])) = 1
                 /\ \A i \in 1..Len(dr.bindables), j \in 1..Len(sp.bindables) :
                        \A x \in ConfiguredAt(log, dr.bindables[i]),
                           y \in ConfiguredAt(log, sp.bindables[j]) : x < y
                 /\ \A x \in 1..Len(log) :
                        log[x].op = "bind_to_pipeline" =>
                            \E y \in 1..Len(log) : y > x /\ log[y].op = "build"
                 /\ log[Len(log)].op = "cache_drawable_shared_part"
                 /\ log[Len(log) - 1].op = "build"
                 /\ shared_data_map[new_log.site] = dr.shared_part

C2_Witness ==
    /\ Len(drawables) = 2
    /\ new_log.hit
    /\ drawables[2].strong > 0
    /\ drawables[1].shared_part = drawables[2].shared_part

\* C3: when nothing refers to a drawable of a shared part any more, the
\* shared part is dropped and the registry no longer yields it for its call
\* site; the next construction at that call site misses and builds a new
\* shared part.
C3_Unreferenced(site) ==
    /\ shared_data_map[site] # 0
    /\ \A d \in Referenced : drawables[d].shared_part # shared_data_map[site]

C3_DroppedAndEvicted ==
    /\ [](\A site \in Sites :
            C3_Unreferenced(site) =>
                /\ parts[shared_data_map[site]].strong = 0
                /\ get_shared_data(shared_data_map, parts, site) = 0)
    /\ [][\A site \in Sites :
            (C3_Unreferenced(site) /\ New(site, 6)) =>
                /\ ~new_log'.hit
                /\ Len(parts') = Len(parts) + 1
                /\ shared_data_map'[site] = Len(parts')
                /\ parts'[Len(parts')].strong = 1
                /\ drawables'[Len(drawables')].shared_part = Len(parts')]_vars

C3_Witness ==
    /\ Len(parts) = 3
    /\ ~new_log.hit
    /\ \E p \in 1..2 : parts[p].strong = 0
    /\ parts[3].strong = 1

\* the positions of the draw_indexed calls of a command list
DrawsAt(cmds) == {i \in 1..Len(cmds) : cmds[i].op = "draw_indexed"}

\* the j-th smallest element of a set of numbers
Nth(S, j) == CHOOSE x \in S : Cardinality({y \in S : y <= x}) = j

\* cmds[first..last] is what drawable d is drawn with: its instance bindables
\* bound in list order, the shared bindables bound in list order, the
\* pipeline bind, one indexed draw with the drawable's index count
C9_DrawnBy(cmds, first, last, d, k) ==
    LET dr == drawables[d]
        sp == parts[dr.shared_part]
        nb == Len(dr.bindables)
        ns == Len(sp.bindables)
        Bound(c, b) ==
            /\ c.op = "bind"
            /\ c.d = d
            /\ c.kind = b.kind
            /\ c.n = IF b.kind = "UniformBufferBinding" THEN k ELSE b.owner
    IN /\ last - first + 1 = nb + ns + 2
       /\ \A x \in 1..nb : Bound(cmds[first + x - 1], dr.bindables[x])
       /\ \A y \in 1..ns : Bound(cmds[first + nb + y - 1], sp.bindables[y])
       /\ cmds[last - 1].op = "bind_pipeline_graphics"
       /\ cmds[last - 1].d = d
       /\ cmds[last - 1].n = sp.pipeline
       /\ cmds[last].d = d
       /\ cmds[last].n = dr.index_count

\* C9: the calls recorded for a frame draw the queued drawables in queue
\* order, one indexed draw each, none reordered, merged or left out; each
\* drawable is drawn with its instance bindables, then the shared bindables,
\* then the pipeline bind, then the indexed draw with its index count.
C9_DrawnInQueueOrder ==
    [][DrawRecorded =>
         LET cmds == recorded'
             at == DrawsAt(cmds)
             n == Len(draw_queue)
         IN /\ Cardinality(at) = n
            /\ n = 0 => cmds = <<>>
            /\ n > 0 => Nth(at, n) = Len(cmds)
            /\ \A j \in 1..n :
                   C9_DrawnBy(cmds, IF j = 1 THEN 1 ELSE Nth(at, j - 1) + 1,
                              Nth(at, j), draw_queue[j], inflight_index)]_vars

C9_Witness ==
    \E i \in DrawsAt(recorded), j \in DrawsAt(recorded) :
        /\ i < j
        /\ recorded[i].d # recorded[j].d
        /\ recorded[i].n # recorded[j].n
        /\ inflight_index = 0

\* a step that is a draw_frame call: draw_calls counts them
\* (BindsUniform: the call got past the acquisition and records a queue in
\* which every drawable binds the uniform)
DrawFrameStep == draw_calls' = draw_calls + 1

BindsUniform ==
    /\ DrawFrameStep
    /\ ~panicked'
    /\ draw_queue # <<>>

\* C4: access_data marks every slot invalid; the next bind with in-flight
\* index k copies the staged value to sub-buffer k and marks slot k, and only
\* slot k, valid; a slot becomes valid by a bind with its own index only.
C4_LazyUploadPerSlot ==
    [][/\ (\E v \in Values : AccessData(v)) =>
              \A k \in Slots : ~ub'.subbuffer_validity[k]
       /\ BindsUniform =>
              LET k == inflight_index
              IN /\ ub'.subbuffers[k] = ub.staging_buffer
                 /\ ub'.subbuffer_validity[k]
                 /\ ub'.staging_buffer = ub.staging_buffer
                 /\ \A j \in Slots \ {k} :
                        /\ ub'.subbuffer_validity[j] = ub.subbuffer_validity[j]
                        /\ ub'.subbuffers[j] = ub.subbuffers[j]
       /\ \A j \in Slots :
              (~ub.subbuffer_validity[j] /\ ub'.subbuffer_validity[j]) =>
                  (BindsUniform /\ inflight_index = j)]_vars

C4_Witness ==
    /\ ub.staging_buffer = 1
    /\ ub.subbuffer_validity[0]
    /\ ub.subbuffers[0] = 1
    /\ ~ub.subbuffer_validity[1]
    /\ ub.subbuffers[1] = 0
    /\ frame_counter = 1

\* C5: no bind for sub-buffer k, and so no host write to it, runs while a
\* submitted frame that bound sub-buffer k is executing, and no upload is
\* refused because the sub-buffer is still in use: the fence of the slot has
\* been waited for.
C5_NoUploadWhileInFlight == ~bind_busy /\ ~upload_refused

C5_Witness ==
    /\ frame_counter = 3
    /\ draw_calls = 3
    /\ \A k \in Slots : futures[k].subs = {k}
    /\ ub.staging_buffer = 1
    /\ \A k \in Slots : ub.subbuffers[k] = 1
    /\ Len(executing) = 2

\* C6 as stated: every draw_frame call advances the in-flight index, so that
\* the index is the number of calls modulo IN_FLIGHT_COUNT.
C6_EveryCallAdvances ==
    ~panicked => inflight_index = draw_calls % IN_FLIGHT_COUNT

\* C6 as amended: the in-flight index is a slot and is the number of frames
\* submitted modulo IN_FLIGHT_COUNT; a call that submits a frame has waited
\* for the earlier submission of slot i, stores the new one in slot i and
\* advances the index; a call that submits nothing leaves index and slots.
C6_SubmittedFramesRotate ==
    /\ [](/\ inflight_index \in Slots
          /\ inflight_index = frame_counter % IN_FLIGHT_COUNT)
    /\ [][DrawFrameStep =>
            LET i == inflight_index
            IN IF frame_counter' = frame_counter + 1
               THEN /\ executing'[Len(executing')].slot = i
                    /\ \A x \in 1..(Len(executing') - 1) : executing'[x].slot # i
                    /\ ~futures'[i].cleaned
                    /\ futures'[i].subs = executing'[Len(executing')].subs
                    /\ \A j \in Slots \ {i} : futures'[j] = futures[j]
                    /\ inflight_index' = (i + 1) % IN_FLIGHT_COUNT
               ELSE /\ frame_counter' = frame_counter
                    /\ inflight_index' = i
                    /\ \A j \in Slots \ {i} : futures'[j] = futures[j]
                    /\ futures'[i].cleaned]_vars

C6_Witness ==
    /\ draw_calls = 3
    /\ frame_counter = 2
    /\ inflight_index = 0
    /\ ~panicked
    /\ \A k \in Slots : ~futures[k].cleaned

\* C7: at most IN_FLIGHT_COUNT submissions are unfinished, and at most one of
\* them belongs to each in-flight slot.
C7_AtMostNInFlight ==
    /\ Len(executing) <= IN_FLIGHT_COUNT
    /\ \A x \in 1..Len(executing), y \in 1..Len(executing) :
           x # y => executing[x].slot # executing[y].slot

C7_Witness ==
    /\ Len(executing) = IN_FLIGHT_COUNT
    /\ frame_counter >= IN_FLIGHT_COUNT + 1
    /\ \A x \in 1..Len(executing) : executing[x].subs # {}

\* C8 as stated: the draw queue is emptied once in every redraw step of the
\* event loop, so every redraw step that returns leaves it empty and no
\* drawable queued in one step is still queued in a later one.
C8_DrainedEveryRedraw ==
    [][((\E q \in QueueSeqs(1), v \in Values, acq \in AcquireResults,
            fl \in FlushResults : RedrawEventsCleared(q, v, acq, fl))
        /\ ~panicked') => draw_queue' = <<>>]_vars

\* C10 as stated: draw_frame does not panic when the swapchain is out of date
\* or suboptimal, at image acquisition or at submit/present.
C10_NeverPanics ==
    [][DrawFrameStep => ~panicked']_vars

\* ------------------------------------------------- texture specifications
\* the rest of the program while textures are loaded and dropped
RenderIdle == GraphicsNew /\ StartsWith(EmptyCache)

\* The loader as the program runs it, from one thread: loads and drops of
\* textures in any order.
NextTexture ==
    \/ \E t \in Threads, src \in TextureSources, args \in LayoutArgs :
           TexCall(t, src, args) /\ UNCHANGED <<render_vars, collider_vars, tile_vars, extra_vars>>
    \/ TexStep /\ UNCHANGED <<render_vars, collider_vars, tile_vars, extra_vars>>
    \/ \E x \in 1..Len(textures) : TexDrop(x) /\ UNCHANGED <<render_vars, collider_vars, tile_vars, extra_vars>>

InitTexture == RenderIdle /\ TextureInit({1}) /\ ColliderInit(<<>>) /\ TileInit /\ ExtraInit

SpecTexture == InitTexture /\ [][NextTexture]_vars

\* a call of the loader that is under way continues
SpecTextureFair ==
    SpecTexture /\ WF_vars(TexStep /\ UNCHANGED <<render_vars, collider_vars, tile_vars, extra_vars>>)

\* The loader called from two threads at once.
InitTextureRace == RenderIdle /\ TextureInit(Threads) /\ ColliderInit(<<>>) /\ TileInit /\ ExtraInit

SpecTextureRace == InitTextureRace /\ [][NextTexture]_vars

\* the textures some Arc still refers to
LiveTextures == {x \in 1..Len(textures) : textures[x].strong > 0}

\* C11: while an Arc of a texture loaded for a source is alive, the cache
\* entry of that source refers to that texture, and a load of the same
\* source returns that very texture without constructing or uploading
\* another one.
C11_LoadIsIdempotent ==
    /\ [](\A x \in LiveTextures : TEXTURE_CACHE[textures[x].id] = x)
    /\ [][\A t \in Threads, x \in LiveTextures :
            (pc[t] = "lookup" /\ pc'[t] # "lookup" /\ textures[x].id = frame[t].id) =>
                /\ pc'[t] = "idle"
                /\ returned'[t] = x
                /\ textures'[x].strong = textures[x].strong + 1
                /\ Len(textures') = Len(textures)
                /\ uploads' = uploads
                /\ TEXTURE_CACHE' = TEXTURE_CACHE]_vars

C11_Witness ==
    /\ loads = 2
    /\ uploads = 1
    /\ pc[1] = "idle"
    /\ returned[1] = 1
    /\ Len(textures) = 1
    /\ textures[1].strong = 2

\* C12 as stated: when two threads load the same source at once, one texture
\* is constructed and both threads get it, so that no two live textures
\* were loaded for the same source.
C12_OneTexturePerSource ==
    \A x \in LiveTextures, y \in LiveTextures :
        textures[x].id = textures[y].id => x = y

\* the entry of LAYOUT_CACHE for the arguments a is present and dead / alive
LayoutDead(a) == LAYOUT_CACHE[a] # 0 /\ layouts[LAYOUT_CACHE[a]].strong = 0

LayoutAlive(a) == LAYOUT_CACHE[a] # 0 /\ layouts[LAYOUT_CACHE[a]].strong > 0

\* C13 as stated: a call of get_descriptor_set_layout that finds the entry
\* of its key dead returns, with a new layout inserted under the key.
C13_DeadLayoutIsRebuilt ==
    \A t \in Threads :
        (pc[t] = "layout" /\ LayoutDead(frame[t].args))
        ~> (pc[t] = "idle" /\ returned[t] # 0 /\ LayoutAlive(frame[t].args))

\* ------------------------------------------------ collider specifications
\* the rectangles the application inserts and removes: every corner pair over
\* a few coordinates, the inverted and the empty ones included (Rect::new
\* takes any two corners)
HitboxXs == {-5, 0, 40}

HitboxYs == {0, 10}

HitboxRects ==
    {Rect(<<x1, y1>>, <<x2, y2>>) : x1 \in HitboxXs, x2 \in HitboxXs,
                                     y1 \in HitboxYs, y2 \in HitboxYs}

NextHitbox ==
    \/ \E r \in HitboxRects : HitboxInsert(r) /\ UNCHANGED <<render_vars, texture_vars, tile_vars, extra_vars>>
    \/ \E r \in HitboxRects : HitboxRemove(r) /\ UNCHANGED <<render_vars, texture_vars, tile_vars, extra_vars>>

InitHitbox == RenderIdle /\ TextureInit({1}) /\ ColliderInit(<<>>) /\ TileInit /\ ExtraInit

SpecHitbox == InitHitbox /\ [][NextHitbox]_vars

\* the bounding box of a set of hitboxes, written out
TightBox(elements) ==
    [min |-> <<CHOOSE x \in {h.min[1] : h \in elements} :
                   \A h \in elements : x <= h.min[1],
               CHOOSE y \in {h.min[2] : h \in elements} :
                   \A h \in elements : y <= h.min[2]>>,
     max |-> <<CHOOSE x \in {h.max[1] : h \in elements} :
                   \A h \in elements : x >= h.max[1],
               CHOOSE y \in {h.max[2] : h \in elements} :
                   \A h \in elements : y >= h.max[2]>>]

\* C14: after any sequence of inserts and removes, the cached bounding box of
\* every chunk is the tight axis-aligned bounding box of the chunk's elements
\* (least minimum, greatest maximum per axis), and it is absent exactly when
\* the chunk has no element.
C14_BoundingBoxIsTight ==
    \A c \in DOMAIN chunks :
        /\ (chunks[c].bounding_box = <<>>) <=> (chunks[c].elements = {})
        /\ chunks[c].elements # {} =>
               chunks[c].bounding_box = <<TightBox(chunks[c].elements)>>

\* a chunk emptied by remove beside a chunk whose box grew beyond each element
C14_Witness ==
    /\ \E c \in DOMAIN chunks : chunks[c].elements = {}
    /\ \E c \in DOMAIN chunks :
           /\ Cardinality(chunks[c].elements) >= 2
           /\ \A h \in chunks[c].elements : chunks[c].bounding_box # <<h>>

\* C15: every hitbox the manager stores has min <= max on each axis.
C15_StoredHitboxesAreOrdered ==
    \A h \in Stored(chunks) : h.min[1] <= h.max[1] /\ h.min[2] <= h.max[2]

\* C16: every stored hitbox is in exactly one chunk, the chunk whose
\* coordinate is floor(min / chunk_dimensions) per axis; removing a stored
\* rectangle deletes it and nothing else, removing a rectangle that is not
\* stored changes nothing.
C16_OneChunkPerHitbox ==
    /\ \A c \in DOMAIN chunks : \A h \in chunks[c].elements :
           /\ c = <<h.min[1] \div chunk_dimensions[1], h.min[2] \div chunk_dimensions[2]>>
           /\ \A c2 \in DOMAIN chunks : h \in chunks[c2].elements => c2 = c
    /\ \A r \in HitboxRects :
           /\ Stored(manager_remove(chunks, r)) = Stored(chunks) \ {r}
           /\ r \notin Stored(chunks) => manager_remove(chunks, r) = chunks

\* hitboxes in chunks left of and right of the origin, whose far corner lies
\* in another chunk, and a chunk emptied by remove
C16_Witness ==
    /\ \E h \in Stored(chunks) : h.min[1] < 0 /\ h.max[1] >= chunk_dimensions[1]
    /\ \E h \in Stored(chunks) : h.min[1] >= chunk_dimensions[1]
    /\ \E c \in DOMAIN chunks : chunks[c].elements = {}

\* the moving rectangle, the static hitboxes and the movements of the
\* collision queries: a wall ahead on the +x side, one three chunks away, one
\* over the start position, one whose lower edge lies on the line of the
\* mover's upper edge, a small one just ahead, and one above
Mover == Rect(<<0, 0>>, <<10, 10>>)

Walls ==
    {Rect(<<15, -5>>, <<25, 15>>), Rect(<<100, -5>>, <<110, 15>>),
     Rect(<<5, 0>>, <<15, 10>>), Rect(<<15, 10>>, <<25, 30>>),
     Rect(<<12, 2>>, <<14, 8>>), Rect(<<0, 15>>, <<10, 25>>)}

Movements ==
    {<<20, 0>>, <<40, 0>>, <<10, 0>>, <<0, 0>>, <<95, 0>>, <<0, 20>>, <<-20, 0>>, <<4, 4>>}

NextCollide ==
    \/ \E r \in Walls : HitboxInsert(r) /\ UNCHANGED <<render_vars, texture_vars, tile_vars, extra_vars>>
    \/ \E r \in Walls : HitboxRemove(r) /\ UNCHANGED <<render_vars, texture_vars, tile_vars, extra_vars>>
    \/ \E movement \in Movements :
           MovingHitTest(Mover, movement) /\ UNCHANGED <<render_vars, texture_vars, tile_vars, extra_vars>>

SpecCollide == InitHitbox /\ [][NextCollide]_vars

\* the bounds on s that  a + s * m < b  puts: none and satisfied, none and
\* unsatisfiable, an upper bound, or a lower bound
Bound(a, m, b) ==
    IF m = 0 THEN [ok |-> a < b, lower |-> {}, upper |-> {}]
    ELSE IF m > 0 THEN [ok |-> TRUE, lower |-> {}, upper |-> {Rat(b - a, m)}]
    ELSE [ok |-> TRUE, lower |-> {Rat(b - a, m)}, upper |-> {}]

\* the rectangle, moved by s * movement for some s in [0, 1], intersects e
PathIntersects(rect, movement, e) ==
    LET bs == {Bound(rect.min[1], movement[1], e.max[1]),
               Bound(-rect.max[1], -movement[1], -e.min[1]),
               Bound(rect.min[2], movement[2], e.max[2]),
               Bound(-rect.max[2], -movement[2], -e.min[2])}
        lower == UNION {b.lower : b \in bs}
        upper == UNION {b.upper : b \in bs}
    IN /\ \A b \in bs : b.ok
       /\ \A l \in lower : RLt(l, R(1)) /\ \A u \in upper : RLt(l, u)
       /\ \A u \in upper : RLt(R(0), u)

\* a query has been answered
Answered == query # <<>> /\ hit # <<>>

\* C17: the 10 x 10 rectangle at the origin moved by [20, 0] against the one
\* hitbox x in [15, 25], y in [-5, 15] makes first contact at t = 1/4 and
\* gets [5, 0]; and whenever the only hitbox is a wall ahead of the leading
\* edge of a movement along +x, at a distance D below the length of the
\* movement, the movement returned is D along +x.
C17_StopsAtTheWall ==
    Answered =>
        LET rect == query[1].rect
            movement == query[1].movement
        IN /\ (/\ Stored(chunks) = {Rect(<<15, -5>>, <<25, 15>>)}
               /\ movement = <<20, 0>>)
              => hit[1].min_t = <<1, 4>> /\ hit[1].result = <<R(5), R(0)>>
           /\ \A e \in Stored(chunks) :
                  (/\ Stored(chunks) = {e}
                   /\ movement[1] > 0 /\ movement[2] = 0
                   /\ e.min[1] >= rect.max[1]
                   /\ e.min[1] - rect.max[1] < movement[1]
                   /\ e.min[2] < rect.max[2] /\ e.max[2] > rect.min[2])
                  => hit[1].result = <<R(e.min[1] - rect.max[1]), R(0)>>

\* C18: when no stored hitbox intersects the path of the rectangle, the
\* movement returned is the movement requested (t = 1), a zero movement
\* included.
C18_FreePathIsUntouched ==
    (/\ Answered
     /\ \A e \in Stored(chunks) : ~PathIntersects(query[1].rect, query[1].movement, e))
    => /\ hit[1].min_t = R(1)
       /\ hit[1].result = <<R(query[1].movement[1]), R(query[1].movement[2])>>

\* free paths past hitboxes: one that touches the path along an edge, and a
\* zero movement beside a stored hitbox
C18_Witness ==
    /\ Answered
    /\ Rect(<<15, 10>>, <<25, 30>>) \in Stored(chunks)
    /\ query[1].movement \in {<<20, 0>>, <<0, 0>>}
    /\ \A e \in Stored(chunks) : ~PathIntersects(query[1].rect, query[1].movement, e)
    /\ hit[1].min_t = R(1)

\* C19: a hitbox that the rectangle meets on its way, free of it at the
\* start and at the target, stops the movement before its end.
C19_PathIsSwept ==
    (/\ Answered
     /\ \E e \in Stored(chunks) :
            /\ PathIntersects(query[1].rect, query[1].movement, e)
            /\ ~intersects(e, query[1].rect)
            /\ ~intersects(e, add_offset(query[1].rect, query[1].movement)))
    => RLt(hit[1].min_t, R(1))

\* C20: every fraction line_collision returns lies in [0, 1], so does the
\* min_t applied, and the movement returned is never against the movement
\* requested nor longer than it.
C20_FractionsInUnitInterval ==
    Answered =>
        LET mv == Vec2(R(query[1].movement[1]), R(query[1].movement[2]))
        IN /\ \A t \in hit[1].fractions : RLe(R(0), t) /\ RLe(t, R(1))
           /\ RLe(R(0), hit[1].min_t) /\ RLe(hit[1].min_t, R(1))
           /\ RLe(R(0), dot(hit[1].result, mv))
           /\ RLe(dot(hit[1].result, mv), dot(mv, mv))

\* the lines and movements of the line_collision calls: those of the unit
\* test, and colliders behind the moving line, beside it, across its own
\* direction, and run through from end to start
MovingLines == {<< <<0, 0>>, <<0, 10>> >>, << <<-2, 0>>, <<0, 10>> >>}

LineMovements == {<<10, 0>>, <<20, 0>>, <<5, 5>>, <<10, 10>>, <<0, 20>>, <<0, 0>>}

ColliderLines ==
    {<< <<10, 0>>, <<10, 10>> >>, << <<12, 0>>, <<10, 10>> >>,
     << <<5, 10>>, <<10, 10>> >>, << <<10, 10>>, <<10, 0>> >>,
     << <<-5, 0>>, <<-5, 10>> >>, << <<-50, 0>>, <<-50, 10>> >>,
     << <<-5, 15>>, <<5, 15>> >>, << <<15, 5>>, <<25, 5>> >>,
     << <<10, 20>>, <<10, 30>> >>, << <<5, -5>>, <<5, 5>> >>}

NextLine ==
    \E moving_line \in MovingLines, movement \in LineMovements, collider \in ColliderLines :
        LineCollision(moving_line, movement, collider)
        /\ UNCHANGED <<render_vars, texture_vars, tile_vars, extra_vars>>

SpecLine == InitHitbox /\ [][NextLine]_vars

\* C21: every value line_collision returns lies in [-1, 1].
C21_FractionWithinOne ==
    line_t # <<>> => RLe(R(-1), line_t[1]) /\ RLe(line_t[1], R(1))

\* the geometry of a line_collision call, from the integer points: the
\* times t at which the moving segment, translated by t * movement, and the
\* static segment first or last have a point in common. When the three
\* directions are not all parallel the common points form a segment in t
\* whose ends have an end point of one of the two segments in contact; they
\* are found by Cramer's rule.
ICross(u, v) == u[1] * v[2] - u[2] * v[1]

ISub(u, v) == <<u[1] - v[1], u[2] - v[2]>>

InUnit(x) == RLe(R(0), x) /\ RLe(x, R(1))

\* an end point pt of the collider meets the moving segment (lp, ld)
ColliderEndTouches(lp, ld, mv, pt) ==
    IF ICross(ld, mv) = 0 THEN {}
    ELSE IF InUnit(Rat(ICross(ISub(pt, lp), mv), ICross(ld, mv)))
         THEN {Rat(ICross(ld, ISub(pt, lp)), ICross(ld, mv))}
         ELSE {}

\* an end point pt of the moving segment meets the collider (cp, cd)
MoverEndTouches(cp, cd, mv, pt) ==
    IF ICross(cd, mv) = 0 THEN {}
    ELSE IF InUnit(Rat(ICross(ISub(pt, cp), <<-mv[1], -mv[2]>>), -ICross(cd, mv)))
         THEN {Rat(ICross(cd, ISub(pt, cp)), -ICross(cd, mv))}
         ELSE {}

TouchTimes(q) ==
    ColliderEndTouches(q.moving_line[1], ISub(q.moving_line[2], q.moving_line[1]),
                       q.movement, q.collider[1])
    \cup ColliderEndTouches(q.moving_line[1], ISub(q.moving_line[2], q.moving_line[1]),
                            q.movement, q.collider[2])
    \cup MoverEndTouches(q.collider[1], ISub(q.collider[2], q.collider[1]),
                         q.movement, q.moving_line[1])
    \cup MoverEndTouches(q.collider[1], ISub(q.collider[2], q.collider[1]),
                         q.movement, q.moving_line[2])

\* the collider is ahead: the segments have no point in common before the
\* movement starts
Ahead(q) == \A t \in TouchTimes(q) : RLe(R(0), t)

\* the first contact within the movement, 1 when there is none
FirstTouch(q) ==
    CHOOSE t \in TouchTimes(q) \cup {R(1)} :
        \A u \in TouchTimes(q) \cup {R(1)} : RLe(t, u)

\* the movement is along the moving segment, or zero
MovesAlongItself(q) ==
    ICross(ISub(q.moving_line[2], q.moving_line[1]), q.movement) = 0

C23_AppliesTheLeastFraction ==
    Answered =>
        /\ hit[1].min_t \in hit[1].fractions \cup {R(1)}
        /\ \A t \in hit[1].fractions \cup {R(1)} : RLe(hit[1].min_t, t)

\* the movement that slides along a surface of unit direction e after the
\* fraction t: the part of the movement along e in full, the rest scaled by t
SlideAlong(mv, t, e) ==
    VAdd(VScale(t, mv), VScale(RMul(RSub(R(1), t), dot(mv, e)), e))

\* C24: the movement returned is t * movement + (1 - t) * (movement
\* projected onto the unit direction of the static edge that was hit), for
\* the one fraction t applied.
C24_SlidesAlongTheEdge ==
    Answered =>
        LET mv == Vec2(R(query[1].movement[1]), R(query[1].movement[2]))
        IN IF hit[1].edges = {}
           THEN hit[1].min_t = R(1) /\ hit[1].result = mv
           ELSE \E e \in hit[1].edges : hit[1].result = SlideAlong(mv, hit[1].min_t, e)

\* a diagonal movement stopped halfway by a wall on the right: the part
\* along the wall is kept, the part into it is halved
C24_Witness ==
    /\ Answered
    /\ query[1].movement = <<4, 4>>
    /\ hit[1].min_t = <<1, 2>>
    /\ <<R(0), R(1)>> \in hit[1].edges
    /\ hit[1].result = <<R(2), R(4)>>

\* ---------------------------------------------------------------------------
\* The animation clocks of the tile loader: tiles are loaded, time passes
\* and update() is called, in any order.

\* the authored animation of the example: tile 0 for 100 ms, tile 1 for 50 ms
ExampleFrames == <<Frame(0, 100), Frame(1, 50)>>

\* two tiles of one tile set that carry the same authored frame sequence
AnimatedTiles ==
    {[tileset_index |-> 0, id |-> 0, frames |-> ExampleFrames],
     [tileset_index |-> 0, id |-> 1, frames |-> ExampleFrames]}

\* the times between two calls, in units of Millis milliseconds
TimeSteps == {1, 5, 12}

NextAnimation ==
    \/ \E tile \in AnimatedTiles :
           GetAnimation(tile) /\ UNCHANGED <<render_vars, texture_vars, collider_vars, tilemap_vars, mesh_vars, extra_vars>>
    \/ \E d \in TimeSteps :
           AdvanceTime(d) /\ UNCHANGED <<render_vars, texture_vars, collider_vars, tilemap_vars, mesh_vars, extra_vars>>
    \/ AnimationUpdate /\ UNCHANGED <<render_vars, texture_vars, collider_vars, tilemap_vars, mesh_vars, extra_vars>>

SpecAnimation == InitHitbox /\ [][NextAnimation]_vars

\* the length of an animation: the sum of its frames' durations
RECURSIVE AnimationLength(_)
AnimationLength(frames) ==
    IF frames = <<>> THEN 0 ELSE Head(frames)[2] + AnimationLength(Tail(frames))

\* the frames (counted from 0) whose interval of cumulative durations
\* contains the time t; `start` is the start of the interval of frame idx. A
\* time on the border of two frames belongs to both.
RECURSIVE FramesAt(_, _, _, _)
FramesAt(frames, idx, start, t) ==
    IF idx > Len(frames) THEN {}
    ELSE (IF start <= t /\ t <= start + frames[idx][2] THEN {idx - 1} ELSE {})
         \cup FramesAt(frames, idx + 1, start + frames[idx][2], t)

\* the milliseconds since the clock was created
TotalElapsed(k) == (now - clock_history[k].created) * Millis

\* C25: once update() has run, every clock shows the frame whose interval
\* of cumulative durations contains the time elapsed since the clock was
\* created, modulo the length of the animation, however the update() calls
\* were spaced.
C25_FrameFollowsElapsedTime ==
    updated =>
        \A k \in DOMAIN animations :
            animations[k].current_frame \in
                FramesAt(animations[k].frames, 1, 0,
                         TotalElapsed(k) % AnimationLength(animations[k].frames))

\* a step of update() that is the first since the wall clock moved
UpdateStep == updated' /\ ~updated

\* C26: update() ticks a clock whose current frame has lasted longer than
\* its duration: the index becomes (index + 1) mod frame count, the
\* timestamp becomes now, the new frame's offset is in the staging buffer
\* and every slot of the buffer is invalid; any other clock is unchanged.
\* The index is always less than the frame count.
C26_UpdateTicksOnce ==
    /\ [](\A k \in DOMAIN animations :
              animations[k].current_frame < Len(animations[k].frames))
    /\ [][UpdateStep =>
            \A k \in DOMAIN animations :
                IF (now - animations[k].last_frame_time) * Millis
                       > animations[k].frames[animations[k].current_frame + 1][2]
                THEN /\ animations'[k].current_frame =
                            (animations[k].current_frame + 1) % Len(animations[k].frames)
                     /\ animations'[k].last_frame_time = now
                     /\ animations'[k].buffer.staging_buffer =
                            animations[k].frames[animations'[k].current_frame + 1][1]
                     /\ \A s \in Slots : ~animations'[k].buffer.subbuffer_validity[s]
                     /\ animations'[k].frames = animations[k].frames
                ELSE animations'[k] = animations[k]]_vars

\* a clock that update() has just ticked for the second time: it is back at
\* frame 0, whose offset is staged, and no slot of its buffer is valid
C26_Witness ==
    /\ updated
    /\ \E k \in DOMAIN animations :
           /\ clock_history[k].ticks = 2
           /\ animations[k].current_frame = 0
           /\ animations[k].last_frame_time = now
           /\ animations[k].buffer.staging_buffer = get_uv_of_sprite(0)
           /\ \A s \in Slots : ~animations[k].buffer.subbuffer_validity[s]

\* C27: two tiles that were given clocks and carry the same authored frame
\* sequence show the same frame index.
C27_SameFramesInLockStep ==
    \A k1 \in DOMAIN clock_history, k2 \in DOMAIN clock_history :
        \A t1 \in clock_history[k1].tiles, t2 \in clock_history[k2].tiles :
            t1.frames = t2.frames
            => animations[k1].current_frame = animations[k2].current_frame

\* ---------------------------------------------------------------------------
\* The tile map loader as the application drives it: maps are loaded and
\* dropped, edited through layers_mut, set_scale and set_position, and the
\* loader's update() is called, in any order.

\* the position and the scale the application loads its maps with
LoadPosition == <<R(0), R(0)>>

LoadScale == R(1)

\* the values the application passes to set_position and to set_scale
NewPositions == {<<R(8), R(0)>>}

NewScales == {R(2)}

\* the edits the application makes through layers_mut: one cell of the
\* map's layers is emptied
EmptiedCells(m) ==
    {[tilemaps[m].layers EXCEPT ![l][i] = <<>>] :
        l \in DOMAIN tilemaps[m].layers,
        i \in 1..(tilemaps[m].map_dimensions[1] * tilemaps[m].map_dimensions[2])}

NextTileMap ==
    \/ \E path \in DOMAIN map_files :
           TileMapLoad(path, LoadPosition, LoadScale)
           /\ UNCHANGED <<render_vars, texture_vars, collider_vars, animation_vars, mesh_vars, extra_vars>>
    \/ \E m \in DOMAIN tilemaps :
           TileMapDrop(m)
           /\ UNCHANGED <<render_vars, texture_vars, collider_vars, animation_vars, mesh_vars, extra_vars>>
    \/ \E m \in LiveMaps(tilemaps) : \E layers \in EmptiedCells(m) :
           LayersMut(m, layers)
           /\ UNCHANGED <<render_vars, texture_vars, collider_vars, animation_vars, mesh_vars, extra_vars>>
    \/ \E m \in DOMAIN tilemaps, scale \in NewScales :
           SetScale(m, scale)
           /\ UNCHANGED <<render_vars, texture_vars, collider_vars, animation_vars, mesh_vars, extra_vars>>
    \/ \E m \in DOMAIN tilemaps, position \in NewPositions :
           SetPosition(m, position)
           /\ UNCHANGED <<render_vars, texture_vars, collider_vars, animation_vars, mesh_vars, extra_vars>>
    \/ TileMapLoaderUpdate
       /\ UNCHANGED <<render_vars, texture_vars, collider_vars, animation_vars, mesh_vars, extra_vars>>

SpecTileMap == InitHitbox /\ [][NextTileMap]_vars

\* the drawable built from what the map holds now
FreshDrawable(m) ==
    TileMapDrawableNew(tilemaps[m].position_offset, tilemaps[m].scale, tilemaps[m].layers,
                       tilemaps[m].map_dimensions, tilesets)

\* C28: a map edited through layers_mut, set_scale or set_position has its
\* flag cleared, and update() rebuilds exactly the live maps whose flag was
\* clear: after update() every live map is up to date and the drawable of a
\* map that was not is the one built from its layers, scale and position.
C28_UpdateRebuildsEditedMaps ==
    tile_update # <<>> =>
        /\ tile_update[1].rebuilt = tile_update[1].dirty
        /\ \A m \in LiveMaps(tilemaps) :
               /\ tilemaps[m].up_to_date
               /\ m \in tile_update[1].dirty => tilemaps[m].drawable = FreshDrawable(m)

\* C29: a load of a path (of a tile set source) from which an object that
\* is still alive was loaded returns that object; otherwise it returns a
\* new object, which the loader's table then holds.
C29_LoadReturnsTheLiveObject ==
    tile_load # <<>> =>
        /\ IF tile_load[1].alive # {}
           THEN tile_load[1].map \in tile_load[1].alive
           ELSE /\ tile_load[1].map > tile_load[1].heap
                /\ loaded_tilemaps[tile_load[1].path] = tile_load[1].map
        /\ \A n \in DOMAIN tile_load[1].tilesets :
               IF tile_load[1].tilesets[n].alive # {}
               THEN tile_load[1].tilesets[n].arc \in tile_load[1].tilesets[n].alive
               ELSE /\ tile_load[1].tilesets[n].arc > tile_load[1].tilesets[n].heap
                    /\ loaded_tilesets[tile_load[1].tilesets[n].source]
                           = tile_load[1].tilesets[n].arc

\* ---------------------------------------------------------------------------
\* TileMapDrawable::new applied to layers of every content.

\* bound on the number of layers of a map
MaxLayers == 2

\* the tile sets of the tiles
MeshSets == <<TileSetNew("A"), TileSetNew("B")>>

\* the size of the map, in cells
MeshDimensions == <<2, 1>>

\* what a cell can hold: nothing, or a tile of one of the tile sets
MeshCells ==
    {<<>>, <<[tile_set |-> 1, tile_id |-> 0]>>, <<[tile_set |-> 1, tile_id |-> 1]>>,
     <<[tile_set |-> 2, tile_id |-> 0]>>}

\* the dense grids of one layer, and the lists of at most MaxLayers layers
MeshLayers == [1..(MeshDimensions[1] * MeshDimensions[2]) -> MeshCells]

MeshLayerLists == UNION {[1..n -> MeshLayers] : n \in 0..MaxLayers}

MeshPositions == {<<R(0), R(0)>>, <<R(8), R(-4)>>}

MeshScales == {R(1), R(2)}

\* one call, with any of the inputs
NextMesh ==
    \E position \in MeshPositions, scale \in MeshScales, layers \in MeshLayerLists :
        mesh_query = <<>>
        /\ DrawableNew(position, scale, layers, MeshDimensions, MeshSets)
        /\ UNCHANGED <<render_vars, texture_vars, collider_vars, animation_vars, tilemap_vars, extra_vars>>

SpecMesh == InitHitbox /\ [][NextMesh]_vars

\* the occupied cells of the layers whose tile set has the given source
CellsOf(layers, sets, source) ==
    {c \in Occupied(layers) : sets[layers[c[1]][c[2]][1].tile_set].source = source}

\* the mesh of a group has 4 vertices and 6 indices for each of `cells`
\* cells, the indices of the n-th cell being 4n + [0, 1, 2, 2, 1, 3]
QuadMesh(group, cells) ==
    /\ Len(group.vertex_buffer) = 4 * cells
    /\ Len(group.index_buffer) = 6 * cells
    /\ group.index_count = 6 * cells
    /\ \A n \in 0..(cells - 1), k \in 1..6 :
           group.index_buffer[6 * n + k] = 4 * n + <<0, 1, 2, 2, 1, 3>>[k]
    /\ \A i \in DOMAIN group.index_buffer :
           group.index_buffer[i] < Len(group.vertex_buffer)

\* C30: the drawable has one group for each tile set that an occupied cell
\* uses and no other; the mesh of a group has 4 vertices and 6 indices for
\* each occupied cell of that tile set, over all layers; the indices of the
\* n-th cell are 4n + [0, 1, 2, 2, 1, 3], each below the vertex count.
C30_FourVerticesSixIndicesPerCell ==
    mesh_query # <<>> =>
        /\ DOMAIN mesh_drawable[1].groups =
               {source \in {"A", "B"} :
                   CellsOf(mesh_query[1].layers, mesh_query[1].sets, source) # {}}
        /\ \A g \in DOMAIN mesh_drawable[1].groups :
               QuadMesh(mesh_drawable[1].groups[g],
                        Cardinality(CellsOf(mesh_query[1].layers, mesh_query[1].sets, g)))

\* two layers with an empty cell: tile set A is used by a cell of each
\* layer, tile set B by one cell
C30_Witness ==
    /\ mesh_query # <<>>
    /\ mesh_query[1].layers =
           << << <<[tile_set |-> 1, tile_id |-> 0]>>, <<[tile_set |-> 2, tile_id |-> 0]>> >>,
              << <<>>, <<[tile_set |-> 1, tile_id |-> 1]>> >> >>
    /\ DOMAIN mesh_drawable[1].groups = {"A", "B"}
    /\ Len(mesh_drawable[1].groups["A"].vertex_buffer) = 8
    /\ mesh_drawable[1].groups["A"].index_buffer = <<0, 1, 2, 2, 1, 3, 4, 5, 6, 6, 5, 7>>
    /\ Len(mesh_drawable[1].groups["B"].vertex_buffer) = 4
    /\ mesh_drawable[1].groups["B"].index_buffer = <<0, 1, 2, 2, 1, 3>>

\* ---------------------------------------------------------------------------
\* Texture::new_array uploading images and layers of every size.

ImageSizes == 1..MaxImageSize

NextArray ==
    \E width \in ImageSizes, height \in ImageSizes, lw \in ImageSizes, lh \in ImageSizes :
        /\ array_query = <<>>
        /\ NewArrayUpload(width, height, <<lw, lh>>)
        /\ UNCHANGED <<first_vars, input_vars, uniform_last, group_vars, choice_vars>>

SpecArray == InitHitbox /\ [][NextArray]_vars

\* the byte of the decoded image that byte b of the pixel at column c, row r
\* of layer L is taken from
TileByte(q, L, r, c, b) ==
    q.buffer[bytes_per_pixel * (((L \div q.cols) * q.layer_dimensions[2] + r) * q.width
                                + ((L % q.cols) * q.layer_dimensions[1]) + c) + b + 1]

\* C31: when the width and the height of the image are multiples of the
\* layer's, the closure does not panic, every chunk is copied to a slot of
\* its own inside the buffer and every slot is written, and layer
\* L = column + row * cols holds the pixel rows of the tile at that place of
\* the grid, from the top.
C31_RetilingIsABijection ==
    (/\ array_query # <<>>
     /\ array_query[1].width % array_query[1].layer_dimensions[1] = 0
     /\ array_query[1].height % array_query[1].layer_dimensions[2] = 0) =>
        /\ ~array_data[1].panicked
        /\ Len(array_data[1].targets) = array_query[1].cols * array_query[1].height
        /\ \A i, j \in DOMAIN array_data[1].targets :
               array_data[1].targets[i] = array_data[1].targets[j] => i = j
        /\ \A i \in DOMAIN array_data[1].targets :
               array_data[1].targets[i] \in 0..(array_query[1].cols * array_query[1].height - 1)
        /\ Len(array_data[1].data) = Len(array_query[1].buffer)
        /\ \A L \in 0..(array_query[1].cols * array_query[1].rows - 1),
              r \in 0..(array_query[1].layer_dimensions[2] - 1),
              c \in 0..(array_query[1].layer_dimensions[1] - 1),
              b \in 0..(bytes_per_pixel - 1) :
               array_data[1].data[bytes_per_pixel
                   * ((L * array_query[1].layer_dimensions[2] + r)
                          * array_query[1].layer_dimensions[1] + c) + b + 1]
                   = TileByte(array_query[1], L, r, c, b)

\* an image of 2 x 2 tiles of 2 x 2 pixels: the second row of the first tile
\* follows its first row
C31_Witness ==
    /\ array_query # <<>>
    /\ array_query[1].width = 4 /\ array_query[1].height = 4
    /\ array_query[1].layer_dimensions = <<2, 2>>
    /\ array_data[1].targets = <<0, 2, 1, 3, 4, 6, 5, 7>>
    /\ SubSeq(array_data[1].data, 1, 16) =
           <<1, 2, 3, 4, 5, 6, 7, 8, 17, 18, 19, 20, 21, 22, 23, 24>>

\* ---------------------------------------------------------------------------
\* The mouse and the UI under the events the window system delivers, with the
\* end of a frame at any place between them.

\* gfx.get_window().inner_size()
InnerSize == <<8, 8>>

\* the positions of WindowEvent::CursorMoved: the middle of the window, and
\* a place near its top right corner
CursorPositions == {<<4, 4>>, <<7, 1>>}

\* an element over the middle of the window; `handles` is what its
\* UiElement::handle_event returns
Element(handles) ==
    [layout |-> [x_position |-> Rat(-1, 2), y_position |-> Rat(-1, 2),
                 width |-> R(1), height |-> R(1)],
     handles |-> handles]

Scenes == {<<Element(FALSE)>>, <<Element(TRUE)>>}

NextInput ==
    \/ TimePasses /\ UNCHANGED <<first_vars, array_vars, uniform_last, group_vars, choice_vars>>
    \/ \E button \in Buttons, state \in {"Pressed", "Released"} :
           DeviceButton(button, state, InnerSize) /\ UNCHANGED <<first_vars, array_vars, uniform_last, group_vars, choice_vars>>
    \/ MouseMotion(<<1, 0>>) /\ UNCHANGED <<first_vars, array_vars, uniform_last, group_vars, choice_vars>>
    \/ MouseWheel(1) /\ UNCHANGED <<first_vars, array_vars, uniform_last, group_vars, choice_vars>>
    \/ \E position \in CursorPositions :
           CursorMoved(position, InnerSize) /\ UNCHANGED <<first_vars, array_vars, uniform_last, group_vars, choice_vars>>
    \/ ClearPresses /\ UNCHANGED <<first_vars, array_vars, uniform_last, group_vars, choice_vars>>

\* the program as it is: no scene is ever set, the Ui passes every event on
SpecInput == InitHitbox /\ [][NextInput]_vars

\* the same with scenes set, of elements that handle a press or do not
NextUi ==
    \/ NextInput
    \/ \E new_scene \in Scenes :
           SetScene(new_scene)
           /\ UNCHANGED <<first_vars, array_vars, uniform_last, group_vars, choice_vars>>

SpecUi == InitHitbox /\ [][NextUi]_vars

\* a step that delivers the event { button, state } to the closure
ButtonEvent(button, state) ==
    /\ input_last'.op = "button"
    /\ input_last'.button = button
    /\ input_last'.state = state

\* the same, for an event the Ui passed on to the Input
MouseEvent(button, state) == ButtonEvent(button, state) /\ ~input_last'.consumed

\* the step is the end-of-frame clear
ClearStep == input_last'.op = "clear_presses" /\ input_last.op # "clear_presses"

\* C32: after clear_presses no button is Pressed: every Pressed button is
\* Held with the instant of its press, every other button is as it was; the
\* motion and the scroll deltas are zero and the cursor position is as it was.
C32_PressedForOneFrame ==
    [][ClearStep =>
          /\ \A b \in Buttons : ~is_button_pressed(button_map', b)
          /\ \A b \in Buttons :
                 button_map'[b] = IF button_map[b].state = "Pressed"
                                  THEN Held(button_map[b].since)
                                  ELSE button_map[b]
          /\ mouse_movement' = <<0, 0>>
          /\ scroll_wheel_movement' = 0
          /\ cursor_position' = cursor_position]_vars

\* a clear after which one button is Held since an instant that has passed
\* and the other one is still Released
C32_Witness ==
    /\ input_last.op = "clear_presses"
    /\ button_map[1] = Held(0)
    /\ instant = 1
    /\ button_map[2] = Released
    /\ cursor_position # <<R(0), R(0)>>

\* C39: the state of a button changes only from None or Released to Pressed
\* on a press event, from Pressed to Held with the same instant on
\* clear_presses, and from Pressed or Held to Released on a release event;
\* an event the mouse gets makes the change when the state allows it and
\* changes nothing otherwise.
C39_ButtonTransitions ==
    [][\A b \in Buttons :
          /\ button_map'[b] # button_map[b] =>
                 \/ /\ button_map[b].state \in {"None", "Released"}
                    /\ button_map'[b] = Pressed(instant)
                    /\ MouseEvent(b, "Pressed")
                 \/ /\ button_map[b].state = "Pressed"
                    /\ button_map'[b] = Held(button_map[b].since)
                    /\ input_last'.op = "clear_presses"
                 \/ /\ button_map[b].state \in {"Pressed", "Held"}
                    /\ button_map'[b] = Released
                    /\ MouseEvent(b, "Released")
          /\ (MouseEvent(b, "Pressed") /\ button_map[b].state \in {"None", "Released"})
                 => button_map'[b] = Pressed(instant)
          /\ (MouseEvent(b, "Released") /\ button_map[b].state \in {"Pressed", "Held"})
                 => button_map'[b] = Released]_vars

\* a press event that reached the mouse while the button was Held: the
\* button is still Held since its first press
C39_Witness ==
    /\ input_last.op = "button"
    /\ input_last.state = "Pressed"
    /\ ~input_last.consumed
    /\ button_map[input_last.button] = Held(0)
    /\ instant = 1

\* C35: the Ui takes the release of a button exactly when it took the last
\* press of that button, so that no button the Input has as Pressed or Held
\* is up, and captured_buttons holds only buttons that are down.
C35_ReleaseFollowsItsPress ==
    /\ \A i \in DOMAIN captured_buttons : captured_buttons[i] \in down
    /\ \A b \in Buttons \ down : button_map[b].state \notin {"Pressed", "Held"}
    /\ (input_last.op = "button" /\ input_last.state = "Released"
            /\ input_last.press # "none")
           => (input_last.consumed <=> input_last.press = "ui")

\* ---------------------------------------------------------------------------
\* A UniformBuffer under any order of new, access_data and bind calls, with
\* binds whose write is refused.

UniformValues == 0..MaxValue

NextUniform ==
    \/ \E data \in UniformValues :
           UniformNew(data)
           /\ UNCHANGED <<core_vars, texture_vars, collider_vars, tile_vars, array_vars,
                          input_vars, group_vars, choice_vars>>
    \/ \E v \in UniformValues :
           UniformAccess(v)
           /\ UNCHANGED <<core_vars, texture_vars, collider_vars, tile_vars, array_vars,
                          input_vars, group_vars, choice_vars>>
    \/ \E k \in Slots, locked \in BOOLEAN :
           UniformBind(k, locked)
           /\ UNCHANGED <<core_vars, texture_vars, collider_vars, tile_vars, array_vars,
                          input_vars, group_vars, choice_vars>>

SpecUniform == InitHitbox /\ [][NextUniform]_vars

\* C33: the uniform buffer has one sub-buffer, one descriptor set and one
\* validity flag for each of the IN_FLIGHT_COUNT slots, and the in-flight
\* index that bind reads is one of these slots.
C33_OneSlotPerFrameInFlight ==
    /\ IN_FLIGHT_COUNT = 2
    /\ DOMAIN ub.subbuffers = 0..(IN_FLIGHT_COUNT - 1)
    /\ DOMAIN ub.descriptor_sets = 0..(IN_FLIGHT_COUNT - 1)
    /\ DOMAIN ub.subbuffer_validity = 0..(IN_FLIGHT_COUNT - 1)
    /\ inflight_index \in DOMAIN ub.subbuffers
    /\ inflight_index \in DOMAIN ub.descriptor_sets
    /\ inflight_index \in DOMAIN ub.subbuffer_validity

\* two frames were recorded and submitted, the second one with in-flight
\* index 1, and the index is back at 0
C33_Witness ==
    /\ draw_calls = 2
    /\ frame_counter = 2
    /\ inflight_index = 0
    /\ futures[1].subs = {1}

Registered == {loaded_tilemaps[path] : path \in DOMAIN loaded_tilemaps} \ {0}

\* C36: update() visits every live map that load returned, so that every
\* live map is up to date after it, and it removes from both tables the
\* entries of the maps and tile sets that were dropped before it.
C36_UpdateVisitsEveryLiveMap ==
    [][tile_update' # <<>> =>
          /\ LiveMaps(tilemaps') \subseteq Registered'
          /\ tile_update'[1].dirty \subseteq tile_update'[1].rebuilt
          /\ \A m \in LiveMaps(tilemaps') : tilemaps'[m].up_to_date
          /\ \A path \in DOMAIN loaded_tilemaps :
                 loaded_tilemaps[path] \notin LiveMaps(tilemaps) =>
                     loaded_tilemaps'[path] = 0
          /\ \A source \in DOMAIN loaded_tilesets :
                 loaded_tilesets[source] \notin LiveTileSets(tilemaps) =>
                     loaded_tilesets'[source] = 0]_vars

\* ---------------------------------------------------------------------------
\* StaticTileGroup::new applied to grids of every content.

GridSizes == 1..MaxGrid

\* what a cell holds: None, or Some(tile_idx)
GroupCells == {<<>>, <<0>>, <<1>>}

GroupScales == {R(1), R(64)}

NextGroup ==
    \E w \in GridSizes, h \in GridSizes, tile_scale \in GroupScales :
        \E tiles \in [1..(w * h) -> GroupCells] :
            /\ group_query = <<>>
            /\ StaticTileGroupNew(<<w, h>>, tiles, tile_scale)
            /\ UNCHANGED <<first_vars, array_vars, input_vars, uniform_last, choice_vars>>

SpecGroup == InitHitbox /\ [][NextGroup]_vars

\* the number of cells of the query that hold a tile
OccupiedCells(q) == Cardinality({c \in DOMAIN q.tiles : q.tiles[c] # <<>>})

\* C37: the group has 4 vertices and 6 indices for each occupied cell, every
\* index is below the number of vertices, and the indices of the n-th quad
\* are 4n + [0, 1, 2, 2, 1, 3], the places of its own four vertices.
C37_IndicesStayInsideTheVertices ==
    group_query # <<>> =>
        /\ Len(group_mesh[1].vertices) = 4 * OccupiedCells(group_query[1])
        /\ Len(group_mesh[1].indices) = 6 * OccupiedCells(group_query[1])
        /\ \A i \in DOMAIN group_mesh[1].indices :
               group_mesh[1].indices[i] < Len(group_mesh[1].vertices)
        /\ \A n \in 0..(OccupiedCells(group_query[1]) - 1), k \in 1..6 :
               group_mesh[1].indices[6 * n + k] = 4 * n + <<0, 1, 2, 2, 1, 3>>[k]

\* ---------------------------------------------------------------------------
\* The frame of an animation at every time of day.

Durations == 0..MaxDuration

\* the frame lists of a tile set: tile ids 0, 1, ... with any durations
FrameLists ==
    UNION {{[i \in 1..n |-> Frame(i - 1, d[i])] : d \in [1..n -> Durations]} :
              n \in 1..MaxFrameList}

NextChoice ==
    \E animation \in FrameLists, now_millis \in 0..MaxNow :
        /\ frame_query = <<>>
        /\ FrameChoice(animation, now_millis)
        /\ UNCHANGED <<first_vars, array_vars, input_vars, uniform_last, group_vars>>

SpecChoice == InitHitbox /\ [][NextChoice]_vars

\* the durations of the first n frames, added up
RECURSIVE DurationsBefore(_, _)
DurationsBefore(animation, n) ==
    IF n = 0 THEN 0 ELSE DurationsBefore(animation, n - 1) + animation[n].duration

\* C38: for an animation of positive length the loop ends without a panic
\* at a frame of the list, with no more left than that frame lasts; what is
\* left is the time of day modulo the length, less the frames before.
C38_FrameChoiceStaysInsideTheList ==
    (frame_query # <<>> /\ animation_length(frame_query[1].animation) > 0) =>
        /\ ~frame_choice[1].panicked
        /\ frame_choice[1].frame_idx \in 0..(Len(frame_query[1].animation) - 1)
        /\ frame_choice[1].sub_duration
               <= frame_query[1].animation[frame_choice[1].frame_idx + 1].duration
        /\ frame_choice[1].sub_duration
               = (frame_query[1].now % animation_length(frame_query[1].animation))
                     - DurationsBefore(frame_query[1].animation, frame_choice[1].frame_idx)

\* the last of three frames is chosen, behind a frame that lasts no time
C38_Witness ==
    /\ frame_query # <<>>
    /\ frame_query[1].animation = <<Frame(0, 2), Frame(1, 0), Frame(2, 2)>>
    /\ frame_query[1].now = 7
    /\ frame_choice[1] = [panicked |-> FALSE, frame_idx |-> 2, sub_duration |-> 1]

====
